---- MODULE Spec2Model ----
(***************************************************************************)
(* RealisticCamera of pbrt-v3 (src/cameras/realistic.cpp): camera          *)
(* creation from a lens description, the focus solver, the exit-pupil      *)
(* table, the two lens tracers and camera-ray generation.                  *)
(*                                                                         *)
(* Float is modelled on an integer lattice.  Lengths are whole lattice     *)
(* units (one unit is half a millimetre, so "mm * .001" is "2 * mm" and    *)
(* "mm * .001 / 2" is "mm"); a unit vector has length SC; a ray parameter  *)
(* t is held at scale TS; an index of refraction at scale ES (1.5 is 150). *)
(* Every quotient is rounded to the nearest lattice value.  The two        *)
(* non-finite Floats the code produces, Infinity and NaN, are separate     *)
(* values; every comparison with NaN is false, as in IEEE arithmetic.      *)
(***************************************************************************)
EXTENDS Integers, Sequences, FiniteSets, TLC

(***************************************************************************)
(* Lattice arithmetic                                                      *)
(***************************************************************************)
SC == 8 * 8
TS == 32 * 32
ES == 10 * 10
Infinity == 1000 * 1000
NegInfinity == -Infinity
NaN == NegInfinity - 1
IsFinite(a) == a # Infinity /\ a # NegInfinity /\ a # NaN

Abs(a) == IF a < 0 THEN -a ELSE a
Min(a, b) == IF a < b THEN a ELSE b
Max(a, b) == IF a > b THEN a ELSE b

\* a / b rounded to the nearest lattice value (b # 0)
RDiv(a, b) ==
    IF b > 0 THEN (2 * a + b) \div (2 * b)
    ELSE (2 * (-a) + (-b)) \div (2 * (-b))

\* a / b rounded towards +infinity, and towards -infinity (b > 0)
CeilDiv(a, b) == -((-a) \div b)
FloorDiv(a, b) == a \div b

RECURSIVE SqrtIter(_, _, _)
SqrtIter(n, r, bit) ==
    IF bit = 0 THEN r
    ELSE IF r + bit <= 46340 /\ (r + bit) * (r + bit) <= n
         THEN SqrtIter(n, r + bit, bit \div 2)
         ELSE SqrtIter(n, r, bit \div 2)

\* std::sqrt on the lattice: the integer square root
ISqrt(n) == SqrtIter(n, 0, 32768)

\* IEEE comparisons: false as soon as one side is NaN
FloatLT(a, b) == a # NaN /\ b # NaN /\ a < b
FloatGT(a, b) == a # NaN /\ b # NaN /\ a > b
FloatGE(a, b) == a # NaN /\ b # NaN /\ a >= b

(***************************************************************************)
(* Vectors, points and rays (core/geometry.h)                              *)
(***************************************************************************)
Vec(x, y, z) == <<x, y, z>>
Dot(a, b) == a[1] * b[1] + a[2] * b[2] + a[3] * b[3]
Neg(v) == <<-v[1], -v[2], -v[3]>>
Sub(a, b) == <<a[1] - b[1], a[2] - b[2], a[3] - b[3]>>

\* v / |v| at length SC, the length l being held with four extra bits
NormalizeBy(v, l) ==
    <<RDiv(v[1] * SC * 16, l), RDiv(v[2] * SC * 16, l),
      RDiv(v[3] * SC * 16, l)>>
Normalize(v) ==
    IF Dot(v, v) = 0 THEN v ELSE NormalizeBy(v, ISqrt(Dot(v, v) * 256))

Faceforward(n, v) == IF Dot(n, v) < 0 THEN Neg(n) ELSE n

Ray(o, d, wavelength) == [o |-> o, d |-> d, wavelength |-> wavelength]

\* Ray::operator()(t): o + d * t
RayAt(r, t) ==
    <<r.o[1] + RDiv(r.d[1] * t, TS), r.o[2] + RDiv(r.d[2] * t, TS),
      r.o[3] + RDiv(r.d[3] * t, TS)>>

\* Scale(1, 1, -1) applied to a ray: CameraToLens and LensToCamera
CameraToLens(r) ==
    [r EXCEPT !.o = <<r.o[1], r.o[2], -r.o[3]>>,
              !.d = <<r.d[1], r.d[2], -r.d[3]>>]
LensToCamera(r) == CameraToLens(r)

\* A direction longer than a unit vector is brought back to unit length
\* before it enters the stack: the ray is the same ray, and the products of
\* the sphere intersection stay inside the lattice's range.
LatticeRay(r) ==
    IF Dot(r.d, r.d) > SC * SC THEN [r EXCEPT !.d = Normalize(r.d)] ELSE r

(***************************************************************************)
(* Quadratic (core/pbrt.h) and Refract (core/reflection.h)                 *)
(***************************************************************************)
\* Roots of A t^2 + B t + C = 0 in increasing order, at scale TS.  B is
\* always even here, so the discriminant is taken on B / 2.
QuadraticRoots(ta, tb) == [ok |-> TRUE, t0 |-> Min(ta, tb), t1 |-> Max(ta, tb)]
QuadraticSolve(A, Bh, rootDiscrim) ==
    QuadraticRoots(RDiv((-Bh - rootDiscrim) * TS, A),
                   RDiv((-Bh + rootDiscrim) * TS, A))
Quadratic(A, B, C) ==
    LET Bh == B \div 2
        discrim == Bh * Bh - A * C
    IN  IF A = 0 \/ discrim < 0 THEN [ok |-> FALSE, t0 |-> 0, t1 |-> 0]
        ELSE QuadraticSolve(A, Bh, ISqrt(discrim))

\* Snell's law for unit vectors wi and n and the index ratio etaI / etaT;
\* fails on total internal reflection.
RefractDirection(wi, n, etaI, etaT, k) ==
    [ok |-> TRUE,
     wt |-> <<RDiv(-wi[1] * etaI, etaT) + RDiv(k * n[1], SC),
              RDiv(-wi[2] * etaI, etaT) + RDiv(k * n[2], SC),
              RDiv(-wi[3] * etaI, etaT) + RDiv(k * n[3], SC)>>]
RefractFrom(wi, n, etaI, etaT, cosThetaI, sin2ThetaT) ==
    IF sin2ThetaT >= SC * SC THEN [ok |-> FALSE, wt |-> <<0, 0, 0>>]
    ELSE RefractDirection(wi, n, etaI, etaT,
             RDiv(etaI * cosThetaI, etaT) - ISqrt(SC * SC - sin2ThetaT))
RefractCos(wi, n, etaI, etaT, cosThetaI) ==
    RefractFrom(wi, n, etaI, etaT, cosThetaI,
        RDiv(RDiv(Max(0, SC * SC - cosThetaI * cosThetaI) * etaI, etaT)
                 * etaI, etaT))
Refract(wi, n, etaI, etaT) ==
    RefractCos(wi, n, etaI, etaT, RDiv(Dot(n, wi), SC))

(***************************************************************************)
(* The lens system                                                         *)
(***************************************************************************)
LensElementInterface(curvatureRadius, thickness, eta, apertureRadius) ==
    [curvatureRadius |-> curvatureRadius, thickness |-> thickness,
     eta |-> eta, apertureRadius |-> apertureRadius]

RECURSIVE SumThickness(_, _)
SumThickness(elems, i) ==
    IF i = 0 THEN 0 ELSE elems[i].thickness + SumThickness(elems, i - 1)

\* cameras/realistic.h: the accessors of the lens system.  The rear element
\* is the last one; its thickness is the film-to-lens distance.
LensRearZ(elems) == elems[Len(elems)].thickness
LensFrontZ(elems) == SumThickness(elems, Len(elems))
RearElementRadius(elems) == elems[Len(elems)].apertureRadius

\* lines 310-315: the hit at parameter t; o is the ray origin seen from the
\* centre of the sphere
SphereHit(ray, o, t) ==
    IF t < 0 THEN [hit |-> FALSE, t |-> t, n |-> <<0, 0, 0>>]
    ELSE [hit |-> TRUE, t |-> t,
          n |-> Faceforward(Normalize(<<o[1] + RDiv(ray.d[1] * t, TS),
                                        o[2] + RDiv(ray.d[2] * t, TS),
                                        o[3] + RDiv(ray.d[3] * t, TS)>>),
                            Neg(ray.d))]

\* lines 305-309: the root of the quadratic q the element is hit at
SphereRoot(radius, ray, o, q) ==
    IF ~q.ok THEN [hit |-> FALSE, t |-> 0, n |-> <<0, 0, 0>>]
    ELSE SphereHit(ray, o,
             IF (ray.d[3] > 0) # (radius < 0) THEN Min(q.t0, q.t1)
             ELSE Max(q.t0, q.t1))

SphereQuadratic(radius, ray, o) ==
    SphereRoot(radius, ray, o,
        Quadratic(Dot(ray.d, ray.d), 2 * Dot(ray.d, o),
                  Dot(o, o) - radius * radius))

IntersectSphericalElement(radius, zCenter, ray) ==
    SphereQuadratic(radius, ray, <<ray.o[1], ray.o[2], ray.o[3] - zCenter>>)

\* The chromatic-aberration shift of an index: (wavelength - 550) * -.04 / 300
Dispersion(eta, wavelength) == eta + RDiv((wavelength - 550) * (-4), 300)

\* lines 276-282: the index used for a ray of the given wavelength
ChromaticEta(caFlag, wavelength, eta) ==
    IF caFlag /\ wavelength >= 400 /\ wavelength <= 700 /\ eta # ES
    THEN Dispersion(eta, wavelength) ELSE eta

(***************************************************************************)
(* The two tracers.  A trace is a fold over the elements; its state holds  *)
(* the ray in lens space, the running elementZ, the outcome so far         *)
(* ("run", "fail": returned false, "abort": CHECK_GE(t, 0) failed,         *)
(* "nonfinite": a division by a zero z-component), the element at which    *)
(* the aperture test failed (0: none), and for every element visited the   *)
(* vertex position and the two indices used.                               *)
(***************************************************************************)
TraceStart(rLens, elementZ) ==
    [status |-> "run", ray |-> rLens, elementZ |-> elementZ, blockedAt |-> 0,
     steps |-> <<>>]

TraceStop(st, status, elementZ) ==
    [st EXCEPT !.status = status, !.elementZ = elementZ]

\* lines 262-266 and 340-344: the aperture test of element i at hit point pHit
ApertureBlocks(element, pHit) ==
    pHit[1] * pHit[1] + pHit[2] * pHit[2] >
        element.apertureRadius * element.apertureRadius

\* A tracer that takes note of the failed aperture test and goes on to the
\* next element
ApertureFailIgnored(st, i, elementZ) ==
    [st EXCEPT !.blockedAt = i, !.elementZ = elementZ]

\* lines 265 and 343: "return false" of the aperture test; the trace ends here
ApertureFail(st, i, elementZ) ==
    [TraceStop(st, "fail", elementZ) EXCEPT !.blockedAt = i]

\* lines 284-285 and 354-356: the ray leaves a spherical interface with the
\* refracted direction r, or the trace fails
RefractStep(st, i, z, nextZ, pHit, etaI, etaT, r) ==
    IF ~r.ok THEN TraceStop(st, "fail", z)
    ELSE [st EXCEPT !.ray.o = pHit, !.ray.d = r.wt, !.elementZ = nextZ,
             !.steps = Append(@, [i |-> i, z |-> z, etaI |-> etaI,
                                  etaT |-> etaT])]

\* lines 260-286 and 338-357: CHECK_GE(t, 0), the aperture test at pHit =
\* rLens(t), and the interaction with the element.  z is the vertex of the
\* element, nextZ the value of elementZ after the iteration.
HitStep(st, i, element, z, nextZ, t, pHit, n, etaI, etaT) ==
    IF t < 0 THEN TraceStop(st, "abort", z)
    ELSE IF ApertureBlocks(element, pHit) THEN ApertureFail(st, i, z)
    ELSE IF element.curvatureRadius = 0
    THEN [st EXCEPT !.ray.o = pHit, !.elementZ = nextZ,
             !.steps = Append(@, [i |-> i, z |-> z, etaI |-> 0, etaT |-> 0])]
    ELSE RefractStep(st, i, z, nextZ, pHit, etaI, etaT,
             Refract(Normalize(Neg(st.ray.d)), n, etaI, etaT))

\* A spherical element, given the result of IntersectSphericalElement
SphereStep(st, i, element, z, nextZ, isect, etaI, etaT) ==
    IF ~isect.hit THEN TraceStop(st, "fail", z)
    ELSE HitStep(st, i, element, z, nextZ, isect.t, RayAt(st.ray, isect.t),
                 isect.n, etaI, etaT)

\* The aperture stop, met at parameter t
StopStep(st, i, element, z, nextZ, t) ==
    HitStep(st, i, element, z, nextZ, t, RayAt(st.ray, t), <<0, 0, 0>>, 0, 0)

\* lines 272-274: the index on the far side of element i, seen from the film
FilmEtaT(elems, i) ==
    IF i > 1 /\ elems[i - 1].eta # 0 THEN elems[i - 1].eta ELSE ES

\* One iteration of the loop of TraceLensesFromFilm (i is 1-based)
FilmElementStep(elems, caFlag, st, i) ==
    LET element == elems[i]
        z == st.elementZ - element.thickness
    IN  IF element.curvatureRadius = 0
        THEN IF st.ray.d[3] >= 0 THEN TraceStop(st, "fail", z)
             ELSE StopStep(st, i, element, z, z,
                      RDiv((z - st.ray.o[3]) * TS, st.ray.d[3]))
        ELSE SphereStep(st, i, element, z, z,
                 IntersectSphericalElement(element.curvatureRadius,
                     z + element.curvatureRadius, st.ray),
                 ChromaticEta(caFlag, st.ray.wavelength, element.eta),
                 ChromaticEta(caFlag, st.ray.wavelength, FilmEtaT(elems, i)))

RECURSIVE FilmLoop(_, _, _, _)
FilmLoop(elems, caFlag, st, i) ==
    IF i = 0 \/ st.status # "run" THEN st
    ELSE FilmLoop(elems, caFlag, FilmElementStep(elems, caFlag, st, i), i - 1)

\* What a trace hands back: ok, whether *rOut was written and with what
TraceResult(st, hasOut) ==
    [ok |-> st.status = "run",
     status |-> IF st.status = "run" THEN "ok" ELSE st.status,
     written |-> st.status = "run" /\ hasOut,
     ray |-> LensToCamera(st.ray),
     blockedAt |-> st.blockedAt, steps |-> st.steps]

\* TraceLensesFromFilm(rCamera, rOut): hasOut says rOut # nullptr, and
\* outWavelength is the wavelength field found in *rOut on entry.
TraceLensesFromFilm(elems, caFlag, rCamera, hasOut, outWavelength) ==
    TraceResult(
        FilmLoop(elems, caFlag,
            TraceStart([LatticeRay(CameraToLens(rCamera)) EXCEPT
                           !.wavelength =
                               IF hasOut THEN outWavelength ELSE 550], 0),
            Len(elems)),
        hasOut)

\* lines 349-353: the indices on the two sides of element i, seen from the
\* scene
SceneEtaI(elems, i) ==
    IF i = 1 \/ elems[i - 1].eta = 0 THEN ES ELSE elems[i - 1].eta
SceneEtaT(elems, i) == IF elems[i].eta # 0 THEN elems[i].eta ELSE ES

\* One iteration of the loop of TraceLensesFromScene (i is 1-based)
SceneElementStep(elems, st, i) ==
    LET element == elems[i]
        z == st.elementZ
    IN  IF element.curvatureRadius = 0
        THEN IF st.ray.d[3] = 0 THEN TraceStop(st, "nonfinite", z)
             ELSE StopStep(st, i, element, z, z + element.thickness,
                      RDiv((z - st.ray.o[3]) * TS, st.ray.d[3]))
        ELSE SphereStep(st, i, element, z, z + element.thickness,
                 IntersectSphericalElement(element.curvatureRadius,
                     z + element.curvatureRadius, st.ray),
                 SceneEtaI(elems, i), SceneEtaT(elems, i))

RECURSIVE SceneLoop(_, _, _)
SceneLoop(elems, st, i) ==
    IF i > Len(elems) \/ st.status # "run" THEN st
    ELSE SceneLoop(elems, SceneElementStep(elems, st, i), i + 1)

TraceLensesFromScene(elems, rCamera, hasOut) ==
    TraceResult(
        SceneLoop(elems,
            TraceStart(LatticeRay(CameraToLens(rCamera)), -LensFrontZ(elems)),
            1),
        hasOut)

(***************************************************************************)
(* Bounds2f (core/geometry.h)                                              *)
(***************************************************************************)
\* Bounds2f(): the empty box, pMin above every value and pMax below
EmptyBounds == [pMin |-> <<Infinity, Infinity>>,
                pMax |-> <<NegInfinity, NegInfinity>>]
Bounds2(p1, p2) ==
    [pMin |-> <<Min(p1[1], p2[1]), Min(p1[2], p2[2])>>,
     pMax |-> <<Max(p1[1], p2[1]), Max(p1[2], p2[2])>>]
Inside(pt, b) ==
    /\ pt[1] >= b.pMin[1] /\ pt[1] <= b.pMax[1]
    /\ pt[2] >= b.pMin[2] /\ pt[2] <= b.pMax[2]
Union(b, pt) ==
    [pMin |-> <<Min(b.pMin[1], pt[1]), Min(b.pMin[2], pt[2])>>,
     pMax |-> <<Max(b.pMax[1], pt[1]), Max(b.pMax[2], pt[2])>>]
Expand(b, delta) ==
    [pMin |-> <<b.pMin[1] - delta, b.pMin[2] - delta>>,
     pMax |-> <<b.pMax[1] + delta, b.pMax[2] + delta>>]
DiagonalLength(b) ==
    ISqrt((b.pMax[1] - b.pMin[1]) * (b.pMax[1] - b.pMin[1])
          + (b.pMax[2] - b.pMin[2]) * (b.pMax[2] - b.pMin[2]))
Area(b) == (b.pMax[1] - b.pMin[1]) * (b.pMax[2] - b.pMin[2])

\* Lerp(num / den, a, b)
Lerp(num, den, a, b) == a + RDiv(num * (b - a), den)

\* RadicalInverse(baseIndex, a) as the fraction num / den (base 2 or 3)
RECURSIVE RadicalInverseIter(_, _, _, _)
RadicalInverseIter(base, a, num, den) ==
    IF a = 0 THEN [num |-> num, den |-> den]
    ELSE RadicalInverseIter(base, a \div base, num * base + (a % base),
                            den * base)
RadicalInverse(baseIndex, a) ==
    RadicalInverseIter(IF baseIndex = 0 THEN 2 ELSE 3, a, 0, 1)

(***************************************************************************)
(* The film (core/film.h): its diagonal, in lattice units                  *)
(***************************************************************************)
FilmDiagonal == 1000

(***************************************************************************)
(* Exit pupil estimation                                                   *)
(***************************************************************************)
\* The number of rear-plane samples of BoundExitPupil (1024 * 1024 in the
\* source)
NPupilSamples == 11

\* The bounding square of the rear element on the sampling plane
ProjRearBounds(elems) ==
    LET rearRadius == RearElementRadius(elems)
        h == RDiv(3 * rearRadius, 2)
    IN  Bounds2(<<-h, -h>>, <<h, h>>)

\* Sample i of BoundExitPupil: the film point and the rear point
PupilSampleFilm(i, pFilmX0, pFilmX1) ==
    <<Lerp(2 * i + 1, 2 * NPupilSamples, pFilmX0, pFilmX1), 0, 0>>
PupilSampleAt(b, u0, u1, rearZ) ==
    <<Lerp(u0.num, u0.den, b.pMin[1], b.pMax[1]),
      Lerp(u1.num, u1.den, b.pMin[2], b.pMax[2]), rearZ>>
PupilSampleRear(elems, i) ==
    PupilSampleAt(ProjRearBounds(elems), RadicalInverse(0, i),
                  RadicalInverse(1, i), LensRearZ(elems))

\* A sample that keeps only the rear point of the last ray that passed
PupilSampleLast(elems, caFlag, acc, pFilm, pRear) ==
    IF Inside(<<pRear[1], pRear[2]>>, acc.pupilBounds)
       \/ TraceLensesFromFilm(elems, caFlag,
              Ray(pFilm, Sub(pRear, pFilm), 550), FALSE, 550).ok
    THEN [pupilBounds |-> Union(EmptyBounds, <<pRear[1], pRear[2]>>),
          nExitingRays |-> acc.nExitingRays + 1]
    ELSE acc

\* lines 696-700: the sample from pFilm to pRear; acc holds pupilBounds and
\* nExitingRays
PupilSampleTry(elems, caFlag, acc, pFilm, pRear) ==
    IF Inside(<<pRear[1], pRear[2]>>, acc.pupilBounds)
       \/ TraceLensesFromFilm(elems, caFlag,
              Ray(pFilm, Sub(pRear, pFilm), 550), FALSE, 550).ok
    THEN [pupilBounds |-> Union(acc.pupilBounds, <<pRear[1], pRear[2]>>),
          nExitingRays |-> acc.nExitingRays + 1]
    ELSE acc

\* One iteration of the sampling loop
PupilSampleStep(elems, caFlag, acc, i, pFilmX0, pFilmX1) ==
    PupilSampleTry(elems, caFlag, acc, PupilSampleFilm(i, pFilmX0, pFilmX1),
                   PupilSampleRear(elems, i))

\* The loop of lines 687-701 from sample i on.  The count of the rays that
\* passed is read in every iteration (it never exceeds i), so that a sample
\* is taken with the bound of the samples before it already computed.
RECURSIVE PupilLoop(_, _, _, _, _, _)
PupilLoop(elems, caFlag, acc, i, pFilmX0, pFilmX1) ==
    IF i >= NPupilSamples \/ acc.nExitingRays > i THEN acc
    ELSE PupilLoop(elems, caFlag,
                   PupilSampleStep(elems, caFlag, acc, i, pFilmX0, pFilmX1),
                   i + 1, pFilmX0, pFilmX1)

\* A return that adds the margin of the sample spacing to the bounding
\* square as well
PupilBoundsWithMargin(projRearBounds, acc) ==
    Expand(IF acc.nExitingRays = 0 THEN projRearBounds ELSE acc.pupilBounds,
           RDiv(2 * DiagonalLength(projRearBounds), ISqrt(NPupilSamples)))

\* lines 703-713: the bounds returned for the samples gathered in acc
PupilBounds(projRearBounds, acc) ==
    IF acc.nExitingRays = 0 THEN projRearBounds
    ELSE Expand(acc.pupilBounds,
                RDiv(2 * DiagonalLength(projRearBounds),
                     ISqrt(NPupilSamples)))

BoundExitPupil(elems, caFlag, pFilmX0, pFilmX1) ==
    PupilBounds(ProjRearBounds(elems),
        PupilLoop(elems, caFlag,
                  [pupilBounds |-> EmptyBounds, nExitingRays |-> 0],
                  0, pFilmX0, pFilmX1))

(***************************************************************************)
(* The focus solver                                                        *)
(***************************************************************************)
\* The three scale factors 0.1, 0.01, 0.001 of FocusDistance, as divisors
ScaleFactors == <<10, 100, 1000>>

\* scale * v for a scale factor 1 / den: the product of two non-zero Floats
\* is not zero, so the lattice keeps at least one unit of it
ScaleDown(v, den) ==
    IF v # 0 /\ RDiv(v, den) = 0 THEN (IF v > 0 THEN 1 ELSE -1)
    ELSE RDiv(v, den)

\* lines 640-659: the bounds of the exit pupil are computed first (pMaxX is
\* bounds.pMax[0], always finite), then comes
\* the first scale factor whose ray survives the stack, and
\* whether a trace on the way hit CHECK_GE(t, 0).  FocusRayTry looks at the
\* trace tr of the ray of scale factor k.
RECURSIVE FocusRay(_, _, _, _, _, _)
FocusRayTry(elems, caFlag, filmDistance, pMaxX, wl, k, tr) ==
    IF tr.status = "abort"
    THEN [found |-> FALSE, abort |-> TRUE, ray |-> tr.ray]
    ELSE IF tr.ok
    THEN [found |-> TRUE, abort |-> FALSE, ray |-> tr.ray]
    ELSE FocusRay(elems, caFlag, filmDistance, pMaxX, wl, k + 1)
FocusRay(elems, caFlag, filmDistance, pMaxX, wl, k) ==
    IF k > Len(ScaleFactors) \/ ~IsFinite(pMaxX)
    THEN [found |-> FALSE, abort |-> FALSE,
          ray |-> Ray(<<0, 0, 0>>, <<0, 0, 0>>, wl)]
    ELSE FocusRayTry(elems, caFlag, filmDistance, pMaxX, wl, k,
             TraceLensesFromFilm(elems, caFlag,
                 Ray(<<0, 0, LensRearZ(elems) - filmDistance>>,
                     <<ScaleDown(pMaxX, ScaleFactors[k]), 0, filmDistance>>,
                     wl),
                 TRUE, wl))

\* lines 669-673: where the focus ray meets the axis.  For a ray parallel
\* to the axis tFocus is an infinity, or NaN when the ray is on the axis.
FocusPoint(ray) ==
    IF ray.d[1] = 0
    THEN IF ray.o[1] # 0 /\ ray.d[3] # 0 THEN Infinity ELSE NaN
    ELSE LET tFocus == RDiv(-ray.o[1] * TS, ray.d[1])
             zFocus == ray.o[3] + RDiv(tFocus * ray.d[3], TS)
         IN  IF zFocus < 0 THEN Infinity ELSE zFocus

\* lines 661-673, given the outcome fr of the search for a focus ray
FocusResult(fr) ==
    IF fr.abort THEN [value |-> NaN, error |-> FALSE, abort |-> TRUE]
    ELSE IF ~fr.found
    THEN [value |-> Infinity, error |-> TRUE, abort |-> FALSE]
    ELSE [value |-> FocusPoint(fr.ray), error |-> FALSE, abort |-> FALSE]

\* FocusDistance(filmDistance): value is the Float returned, error says
\* that Error() was called, abort that a CHECK ended the process.  wl is
\* the wavelength field of the local Ray handed to the trace.  A film
\* distance that overflowed to an infinity gives the trace a non-finite
\* ray: behind a rear stop pointing away from it the trace returns false,
\* everywhere else t is NaN and CHECK_GE(t, 0) ends the process.
FocusDistance(elems, caFlag, filmDistance, wl) ==
    IF ~IsFinite(filmDistance)
    THEN IF filmDistance = NegInfinity
            /\ elems[Len(elems)].curvatureRadius = 0
         THEN [value |-> Infinity, error |-> TRUE, abort |-> FALSE]
         ELSE [value |-> NaN, error |-> FALSE, abort |-> TRUE]
    ELSE FocusResult(
             FocusRay(elems, caFlag, filmDistance,
                 BoundExitPupil(elems, caFlag, 0,
                                RDiv(FilmDiagonal, 1000)).pMax[1],
                 wl, 1))

\* ComputeCardinalPoints(rIn, rOut, pz, fz).  A ray leaving parallel to the
\* axis (d.x = 0) makes both quotients non-finite.
ComputeCardinalPoints(rIn, rOut) ==
    IF rOut.d[1] = 0 THEN [pz |-> NaN, fz |-> NaN]
    ELSE [pz |-> -RayAt(rOut,
                     RDiv((rIn.o[1] - rOut.o[1]) * TS, rOut.d[1]))[3],
          fz |-> -RayAt(rOut, RDiv(-rOut.o[1] * TS, rOut.d[1]))[3]]

\* What the caller of a trace sees of it
TraceSummary(tr) ==
    [run |-> TRUE, ok |-> tr.ok, written |-> tr.written,
     blockedAt |-> tr.blockedAt]
NoTrace == [run |-> FALSE, ok |-> FALSE, written |-> FALSE, blockedAt |-> 0]

\* lines 591 and 598: the cardinal points c1 of the film side and c2 of the
\* scene side, kept with the two traces they come from
ThickLensCardinal(c1, c2, t1, t2) ==
    [ok |-> TRUE, pz |-> <<c1.pz, c2.pz>>, fz |-> <<c1.fz, c2.fz>>,
     scene |-> TraceSummary(t1), film |-> TraceSummary(t2)]

\* lines 588-598, given the trace t1 from the scene and the trace t2 from
\* the film: ok is false when one of the two CHECK(Trace...) ends the
\* process (the second trace is not run when the first CHECK fails)
ThickLensFromTraces(rScene, rFilm, t1, t2) ==
    IF ~t1.ok
    THEN [ok |-> FALSE, pz |-> <<NaN, NaN>>, fz |-> <<NaN, NaN>>,
          scene |-> TraceSummary(t1), film |-> NoTrace]
    ELSE IF ~t2.ok
    THEN [ok |-> FALSE, pz |-> <<NaN, NaN>>, fz |-> <<NaN, NaN>>,
          scene |-> TraceSummary(t1), film |-> TraceSummary(t2)]
    ELSE ThickLensCardinal(ComputeCardinalPoints(rScene, t1.ray),
                           ComputeCardinalPoints(rFilm, t2.ray), t1, t2)

\* The two parallel rays of the thick lens approximation, at height x
ThickLensRays(elems, caFlag, wl, rScene, rFilm) ==
    ThickLensFromTraces(rScene, rFilm,
        TraceLensesFromScene(elems, rScene, TRUE),
        TraceLensesFromFilm(elems, caFlag, rFilm, TRUE, wl))

\* ComputeThickLensApproximation(pz, fz).  Index 1 is the film side (pz[0],
\* fz[0]), index 2 the scene side.
ComputeThickLensApproximation(elems, caFlag, wl) ==
    ThickLensRays(elems, caFlag, wl,
        Ray(<<RDiv(FilmDiagonal, 1000), 0, LensFrontZ(elems) + 1>>,
            <<0, 0, -1>>, wl),
        Ray(<<RDiv(FilmDiagonal, 1000), 0, LensRearZ(elems) - 1>>,
            <<0, 0, 1>>, wl))

\* The coefficient c of FocusThickLens (NaN as soon as a cardinal point is)
ThickLensCoefficient(tl, focusDistance) ==
    IF \E k \in 1..2 : ~IsFinite(tl.pz[k]) \/ ~IsFinite(tl.fz[k]) THEN NaN
    ELSE LET f == tl.fz[1] - tl.pz[1]
             z == -focusDistance
         IN  (tl.pz[2] - z - tl.pz[1]) * (tl.pz[2] - z - 4 * f - tl.pz[1])

\* A check that lets c = 0 through: CHECK_GE(c, 0)
CoefficientNonNegative(c) == FloatGE(c, 0)

\* CHECK_GT(c, 0): the process goes on only when this holds
CoefficientAccepted(c) == FloatGT(c, 0)

\* lines 612-613: delta, the translation of the lens
ThickLensDelta(tl, focusDistance, c) ==
    RDiv(tl.pz[2] + focusDistance + tl.pz[1] - ISqrt(c), 2)

\* lines 611-614, given the thick lens approximation tl, the coefficient c
\* and delta
ThickLensFocus(elems, tl, c, delta) ==
    IF ~tl.ok
    THEN [called |-> TRUE, abort |-> TRUE, value |-> NaN, c |-> NaN,
          delta |-> NaN, traced |-> FALSE, scene |-> tl.scene,
          film |-> tl.film]
    ELSE IF ~CoefficientAccepted(c)
    THEN [called |-> TRUE, abort |-> TRUE, value |-> NaN, c |-> c,
          delta |-> NaN, traced |-> TRUE, scene |-> tl.scene,
          film |-> tl.film]
    ELSE [called |-> TRUE, abort |-> FALSE,
          value |-> elems[Len(elems)].thickness + delta, c |-> c,
          delta |-> delta, traced |-> TRUE, scene |-> tl.scene,
          film |-> tl.film]

ThickLensSolve(elems, focusDistance, tl) ==
    ThickLensFocus(elems, tl, ThickLensCoefficient(tl, focusDistance),
        ThickLensDelta(tl, focusDistance,
                       ThickLensCoefficient(tl, focusDistance)))

\* FocusThickLens(focusDistance): abort when a CHECK ends the process,
\* otherwise value is the film distance returned; traced says that both
\* traces of the thick lens approximation succeeded, so that c was computed
FocusThickLens(elems, caFlag, focusDistance, wl) ==
    ThickLensSolve(elems, focusDistance,
                   ComputeThickLensApproximation(elems, caFlag, wl))

(***************************************************************************)
(* Float arithmetic of FocusBinarySearch and of the ray weight              *)
(***************************************************************************)
\* The largest magnitude a film distance takes before it overflows to an
\* infinity
FloatMax == 64

Overflow(x) ==
    IF ~IsFinite(x) THEN x
    ELSE IF x > FloatMax THEN Infinity
    ELSE IF x < -FloatMax THEN NegInfinity
    ELSE x

\* x *= 1.005f.  The product of a non-zero Float is further from zero than
\* the Float, so the quotient is rounded away from zero; zero, the
\* infinities and NaN are their own product.
MulUp(x) ==
    IF ~IsFinite(x) THEN x
    ELSE IF x > 0 THEN Overflow(CeilDiv(x * 1005, 1000))
    ELSE Overflow(FloorDiv(x * 1005, 1000))

\* x /= 1.005f: the quotient comes nearer to zero as long as the spacing of
\* the values allows it, and among the smallest values it rounds back to x
DivDown(x) ==
    IF ~IsFinite(x) THEN x
    ELSE IF x > 0 THEN Max(1, (x * 1000) \div 1005)
    ELSE IF x < 0 THEN Min(-1, -(((-x) * 1000) \div 1005))
    ELSE 0

\* 0.5f * (a + b)
Mid(a, b) ==
    IF a = NaN \/ b = NaN THEN NaN
    ELSE IF ~IsFinite(a) /\ ~IsFinite(b) THEN (IF a = b THEN a ELSE NaN)
    ELSE IF ~IsFinite(a) THEN a
    ELSE IF ~IsFinite(b) THEN b
    ELSE RDiv(a + b, 2)

\* a / b for finite a and b: 0 / 0 is NaN, a / 0 an infinity
FDiv(a, b) ==
    IF b # 0 THEN RDiv(a, b)
    ELSE IF a = 0 THEN NaN
    ELSE IF a > 0 THEN Infinity
    ELSE NegInfinity

(***************************************************************************)
(* Sampling the exit pupil and weighting a camera ray                       *)
(***************************************************************************)
\* An index rounded to the nearest band
PupilIndexNearest(rFilm, size) ==
    Min(size - 1, RDiv(rFilm * 2 * size, FilmDiagonal))

\* The index of the exit pupil band of a film point at distance rFilm
PupilIndex(rFilm, size) == Min(size - 1, (rFilm * 2 * size) \div FilmDiagonal)

\* lines 764-774: the point of the rear plane, given the distance rFilm of
\* the film point from the centre and the bounds of its band
SamplePupilBounds(pFilm, lensSample, rFilm, rIndex, pupilBounds, rearZ) ==
    LET pLensX == Lerp(lensSample[1], lensSample[3], pupilBounds.pMin[1],
                       pupilBounds.pMax[1])
        pLensY == Lerp(lensSample[2], lensSample[3], pupilBounds.pMin[2],
                       pupilBounds.pMax[2])
        sinTheta == IF rFilm # 0 THEN RDiv(pFilm[2] * SC, rFilm) ELSE 0
        cosTheta == IF rFilm # 0 THEN RDiv(pFilm[1] * SC, rFilm) ELSE SC
    IN  [rIndex |-> rIndex, sampleBoundsArea |-> Area(pupilBounds),
         pRear |-> <<RDiv(cosTheta * pLensX - sinTheta * pLensY, SC),
                     RDiv(sinTheta * pLensX + cosTheta * pLensY, SC),
                     rearZ>>]

SamplePupilAt(elems, exitPupilBounds, size, pFilm, lensSample, rFilm) ==
    SamplePupilBounds(pFilm, lensSample, rFilm, PupilIndex(rFilm, size),
                      exitPupilBounds[PupilIndex(rFilm, size)],
                      LensRearZ(elems))

\* SampleExitPupil(pFilm, lensSample, &sampleBoundsArea); the lens sample is
\* the pair of fractions lensSample[1] / lensSample[3], lensSample[2] /
\* lensSample[3]
SampleExitPupil(elems, exitPupilBounds, size, pFilm, lensSample) ==
    SamplePupilAt(elems, exitPupilBounds, size, pFilm, lensSample,
                  ISqrt(pFilm[1] * pFilm[1] + pFilm[2] * pFilm[2]))

\* cos^4 of the angle with the axis, from the cosine at scale SC
Cos4(cosTheta) ==
    RDiv(RDiv(cosTheta * cosTheta, SC) * RDiv(cosTheta * cosTheta, SC), SC)
Cos4Theta(d) == Cos4(Normalize(d)[3])

\* lines 849-855: the weight of a ray whose trace succeeded, at scale SC
RayWeight(simple, open, close, cos4Theta, pupilArea, area0, lensRearZ) ==
    IF simple
    THEN FDiv(cos4Theta * pupilArea, area0)
    ELSE FDiv((close - open) * cos4Theta * pupilArea, lensRearZ * lensRearZ)

(***************************************************************************)
(* The inputs: the parameter set of the scene file and the lens files      *)
(***************************************************************************)
\* Lens files: four values a row (curvature radius, thickness, index of
\* refraction at scale ES, aperture diameter; lengths in mm)
StopFrontLens == <<0, 1, 0, 12,  8, 2, 150, 10,  -8, 20, 100, 10>>
StrongLens == <<4, 2, 150, 6,  -4, 10, 100, 6>>
RearStopLens == <<4, 2, 150, 6,  -4, 7, 100, 6,  0, 10, 0, 12>>
\* the air behind the rear surface written as 0, as in the row of a stop
ZeroEtaLens == <<4, 2, 150, 6,  -4, 10, 0, 6>>
\* a wide stop and no glass: rays from many points of the film pass
StopOnlyLens == <<0, 10, 0, 40>>

LensFileNames ==
    {"", "missing.dat", "empty.dat", "one.dat", "stopfront.dat", "strong.dat",
     "rearstop.dat", "zeroeta.dat", "stoponly.dat", "v2spectral.dat",
     "excess2.dat",
     "excess3.dat"}

\* ReadFloatFile(lensFile, &lensData): whether the file can be read, and
\* the values it holds
ReadFloatFile(lensFile) ==
    CASE lensFile = "empty.dat" -> [ok |-> TRUE, data |-> <<>>]
      [] lensFile = "one.dat" -> [ok |-> TRUE, data |-> <<50>>]
      [] lensFile = "stopfront.dat" -> [ok |-> TRUE, data |-> StopFrontLens]
      [] lensFile = "strong.dat" -> [ok |-> TRUE, data |-> StrongLens]
      [] lensFile = "rearstop.dat" -> [ok |-> TRUE, data |-> RearStopLens]
      [] lensFile = "zeroeta.dat" -> [ok |-> TRUE, data |-> ZeroEtaLens]
      [] lensFile = "stoponly.dat" -> [ok |-> TRUE, data |-> StopOnlyLens]
      [] lensFile = "v2spectral.dat" ->
             [ok |-> TRUE, data |-> <<50>> \o StrongLens]
      [] lensFile = "excess2.dat" ->
             [ok |-> TRUE, data |-> StrongLens \o <<9, 9>>]
      [] lensFile = "excess3.dat" -> [ok |-> TRUE, data |-> <<50, 4, 2>>]
      [] OTHER -> [ok |-> FALSE, data |-> <<>>]

ApertureDiameters == {0, 6, 100}
FilmDistances == {0, 30}
FocusDistances == {36, 100}
\* <<shutteropen, shutterclose>>
Shutters == {<<0, 1>>, <<2, 1>>}

ParamSets ==
    [lensfile : LensFileNames, aperturediameter : ApertureDiameters,
     focusdistance : FocusDistances, filmdistance : FilmDistances,
     simpleweighting : BOOLEAN, shutter : Shutters,
     chromaticAberrationEnabled : BOOLEAN]

\* The points of the film and the lens samples GenerateRay is called with,
\* and the wavelengths the caller's ray may carry
FilmPoints == {<<0, 0>>, <<2, 0>>, <<0, -3>>, <<300, 0>>, <<300, 400>>}
LensSamples == {<<a, b, 2>> : a \in 0..2, b \in 0..2}
Wavelengths == {400, 550}

\* The wavelength of the rays the constructor hands to the tracers
ReferenceWavelength == 550

(***************************************************************************)
(* The state                                                               *)
(***************************************************************************)
\* The number of exit pupil bands (64 in the source)
NBands == 2
\* The number of bisection steps of FocusBinarySearch
NBisections == 20

VARIABLES
    pc,                 \* where the creation of the camera stands
    params,             \* the ParamSet
    result,             \* "none", "camera", "nullptr" or "aborted"
    warnings, errors,   \* what Warning() and Error() were called for
    calls,              \* the focus routines the constructor has invoked
    lensData,           \* the local of CreateRealisticCamera
    elementInterfaces, exitPupilBounds, simpleWeighting, caFlag,
    shutterOpen, shutterClose,            \* the members of the camera
    filmDistanceLower, filmDistanceUpper, bisection, fb,
                        \* the locals of FocusBinarySearch and its result
    focusValue,         \* the value of FocusDistance a while loop tests
    thickLens,          \* the last call of FocusThickLens
    pending,            \* the bands ParallelFor has not run yet
    out                 \* the last call of GenerateRay

vars ==
    <<pc, params, result, warnings, errors, calls, lensData,
      elementInterfaces, exitPupilBounds, simpleWeighting, caFlag,
      shutterOpen, shutterClose, filmDistanceLower, filmDistanceUpper,
      bisection, fb, focusValue, thickLens, pending, out>>

camera ==
    <<elementInterfaces, exitPupilBounds, simpleWeighting, caFlag,
      shutterOpen, shutterClose>>
search == <<filmDistanceLower, filmDistanceUpper, bisection, fb, focusValue>>
logs == <<warnings, errors, calls>>

NoThickLens ==
    [called |-> FALSE, abort |-> FALSE, value |-> NaN, c |-> NaN,
     delta |-> NaN, traced |-> FALSE, scene |-> NoTrace, film |-> NoTrace]
NoRay ==
    [called |-> FALSE, pFilm |-> <<0, 0>>, rIndex |-> 0, traceOk |-> FALSE,
     written |-> FALSE, blockedAt |-> 0, weight |-> 0]

Init ==
    /\ pc = "create"
    /\ params \in ParamSets
    /\ result = "none"
    /\ warnings = {} /\ errors = {} /\ calls = {}
    /\ lensData = <<>>
    /\ elementInterfaces = <<>>
    /\ exitPupilBounds = [b \in {} |-> EmptyBounds]
    /\ simpleWeighting = FALSE /\ caFlag = FALSE
    /\ shutterOpen = 0 /\ shutterClose = 0
    /\ filmDistanceLower = 0 /\ filmDistanceUpper = 0
    /\ bisection = 0 /\ fb = 0
    /\ focusValue = 0
    /\ thickLens = NoThickLens
    /\ pending = {}
    /\ out = NoRay

(***************************************************************************)
(* CreateRealisticCamera, up to the call of the constructor                *)
(***************************************************************************)
\* lines 863-867: the shutter times in increasing order
ShutterTimes(shutter) ==
    IF shutter[2] < shutter[1]
    THEN [open |-> shutter[2], close |-> shutter[1], swapped |-> TRUE]
    ELSE [open |-> shutter[1], close |-> shutter[2], swapped |-> FALSE]

\* An erase of the last value instead of the first
StripLastValue(data) == SubSeq(data, 1, Len(data) - 1)

\* line 891: lensData.erase(lensData.begin())
StripExtraValue(data) == Tail(data)

\* lines 876-900: what becomes of the lens file
LoadLensData(lensFile) ==
    LET file == ReadFloatFile(lensFile)
        n == Len(file.data)
    IN  IF lensFile = ""
        THEN [ok |-> FALSE, data |-> <<>>, warnings |-> {},
              errors |-> {"no lens file"}]
        ELSE IF ~file.ok
        THEN [ok |-> FALSE, data |-> <<>>, warnings |-> {},
              errors |-> {"read"}]
        ELSE IF n % 4 = 0
        THEN [ok |-> TRUE, data |-> file.data, warnings |-> {},
              errors |-> {}]
        ELSE IF n % 4 = 1
        THEN [ok |-> TRUE, data |-> StripExtraValue(file.data),
              warnings |-> {"extra value"}, errors |-> {}]
        ELSE [ok |-> FALSE, data |-> file.data, warnings |-> {},
              errors |-> {"excess values"}]

CreateRealisticCamera ==
    /\ pc = "create"
    /\ LET st == ShutterTimes(params.shutter)
           load == LoadLensData(params.lensfile)
       IN  /\ warnings' = (IF st.swapped THEN {"shutter"} ELSE {})
                              \cup load.warnings
           /\ errors' = load.errors
           /\ lensData' = load.data
           /\ IF load.ok
              THEN \* the member initialisers of the constructor, line 57-58
                   /\ pc' = "elements"
                   /\ result' = result
                   /\ shutterOpen' = st.open
                   /\ shutterClose' = st.close
                   /\ simpleWeighting' = params.simpleweighting
                   /\ caFlag' = params.chromaticAberrationEnabled
              ELSE /\ pc' = "returned"
                   /\ result' = "nullptr"
                   /\ UNCHANGED <<shutterOpen, shutterClose, simpleWeighting,
                                  caFlag>>
    /\ UNCHANGED <<params, calls, elementInterfaces, exitPupilBounds, search,
                   thickLens, pending, out>>

(***************************************************************************)
(* The constructor: the element loop, lines 59-73                          *)
(***************************************************************************)
\* A stop row that takes the requested diameter whatever its maximum
StopApertureUnclamped(apertureDiameter, designMax) ==
    [value |-> apertureDiameter, clamped |-> FALSE]

\* lines 61-68: the aperture diameter of a stop row
StopAperture(apertureDiameter, designMax) ==
    IF apertureDiameter > designMax
    THEN [value |-> designMax, clamped |-> TRUE]
    ELSE [value |-> apertureDiameter, clamped |-> FALSE]

\* The loop from value k on (k is 1-based); acc holds lensData, which the
\* loop writes, the elements pushed and whether a warning was issued
RECURSIVE ElementLoop(_, _, _)
ElementLoop(apertureDiameter, k, acc) ==
    IF k > Len(acc.lensData) THEN acc
    ELSE LET d == acc.lensData
             stop == StopAperture(apertureDiameter, d[k + 3])
             isStop == d[k] = 0
             d2 == IF isStop THEN [d EXCEPT ![k + 3] = stop.value] ELSE d
         IN  ElementLoop(apertureDiameter, k + 4,
                 [lensData |-> d2,
                  elems |-> Append(acc.elems,
                      LensElementInterface(2 * d2[k], 2 * d2[k + 1],
                                           d2[k + 2], d2[k + 3])),
                  clamped |-> acc.clamped \/ (isStop /\ stop.clamped)])

BuildElements ==
    /\ pc = "elements"
    /\ LET r == ElementLoop(params.aperturediameter, 1,
                    [lensData |-> lensData, elems |-> <<>>,
                     clamped |-> FALSE])
       IN  /\ lensData' = r.lensData
           /\ elementInterfaces' = r.elems
           /\ warnings' = warnings
                  \cup (IF r.clamped THEN {"aperture clamp"} ELSE {})
    /\ pc' = "focus"
    /\ UNCHANGED <<params, result, errors, calls, exitPupilBounds,
                   simpleWeighting, caFlag, shutterOpen, shutterClose, search,
                   thickLens, pending, out>>

(***************************************************************************)
(* The constructor: the lens-film distance, lines 75-94                    *)
(***************************************************************************)
\* A constructor that runs the focus solver whatever film distance is given
UsesFocusSolverAlways(filmdistance) == TRUE

\* line 77: the focus solver is used when no film distance is given
UsesFocusSolver(filmdistance) == filmdistance = 0

\* A constructor that installs the result of FocusBinarySearch
InstalledBinarySearch(binarySearch, thickLensValue) == binarySearch

\* line 81: the film distance the focus solver installs, given the result
\* fb of FocusBinarySearch and the result of FocusThickLens
InstalledFilmDistance(binarySearch, thickLensValue) == thickLensValue

\* The errors after a call of FocusDistance that returned fd
FocusErrors(fd) == IF fd.error THEN errors \cup {"focus ray"} ELSE errors

Abort ==
    /\ pc' = "aborted"
    /\ result' = "aborted"

\* An empty lens: FocusThickLens (line 594, LensRearZ()) or FocusDistance
\* (line 684, RearElementRadius()) calls back() on the empty vector, and
\* the constructor goes on to write back().thickness.  The behaviour is
\* undefined: the process may die, or go on and return a camera.
EmptyLensBack ==
    /\ pc = "focus"
    /\ Len(elementInterfaces) = 0
    /\ pc' = "undefined"
    /\ result' \in {"aborted", "camera"}
    /\ calls' = calls \cup
           (IF UsesFocusSolver(params.filmdistance)
            THEN {"FocusBinarySearch", "FocusThickLens"}
            ELSE {"FocusDistance"})
    /\ UNCHANGED <<params, warnings, errors, lensData, camera, search,
                   thickLens, pending, out>>

\* lines 86-89: the film distance is hard set; fd is what FocusDistance
\* returned for the log
HardSet(fd) ==
    /\ calls' = calls \cup {"FocusDistance"}
    /\ errors' = FocusErrors(fd)
    /\ IF fd.abort
       THEN Abort /\ UNCHANGED elementInterfaces
       ELSE /\ elementInterfaces' =
                   [elementInterfaces EXCEPT
                       ![Len(elementInterfaces)].thickness =
                           params.filmdistance]
            /\ pc' = "print"
            /\ result' = result

HardSetFilmDistance ==
    /\ pc = "focus"
    /\ Len(elementInterfaces) > 0
    /\ ~UsesFocusSolver(params.filmdistance)
    /\ HardSet(FocusDistance(elementInterfaces, caFlag, params.filmdistance,
                             ReferenceWavelength))
    /\ UNCHANGED <<params, warnings, lensData, exitPupilBounds,
                   simpleWeighting, caFlag, shutterOpen, shutterClose, search,
                   thickLens, pending, out>>

\* line 620: the bracket starts at the thick lens estimate r
StartBracket(r) ==
    /\ thickLens' = r
    /\ calls' = calls \cup {"FocusBinarySearch", "FocusThickLens"}
    /\ IF r.abort
       THEN Abort /\ UNCHANGED <<filmDistanceLower, filmDistanceUpper>>
       ELSE /\ filmDistanceLower' = r.value
            /\ filmDistanceUpper' = r.value
            /\ pc' = "bracketLower"
            /\ result' = result

\* line 78 and line 620: FocusBinarySearch starts from the thick lens
\* estimate
StartFocusBinarySearch ==
    /\ pc = "focus"
    /\ Len(elementInterfaces) > 0
    /\ UsesFocusSolver(params.filmdistance)
    /\ StartBracket(FocusThickLens(elementInterfaces, caFlag,
                                   params.focusdistance, ReferenceWavelength))
    /\ UNCHANGED <<params, warnings, errors, lensData, camera, bisection, fb,
                   focusValue, pending, out>>

\* The condition of a while loop of lines 621-624 is evaluated: fd is what
\* FocusDistance returned, and the test of its value comes next
BracketEvaluate(fd, test) ==
    /\ calls' = calls \cup {"FocusDistance"}
    /\ errors' = FocusErrors(fd)
    /\ focusValue' = fd.value
    /\ IF fd.abort THEN Abort ELSE pc' = test /\ result' = result

\* line 621: FocusDistance(filmDistanceLower) is evaluated
BracketLower ==
    /\ pc = "bracketLower"
    /\ BracketEvaluate(FocusDistance(elementInterfaces, caFlag,
                                     filmDistanceLower, ReferenceWavelength),
                       "lowerTest")
    /\ UNCHANGED <<params, warnings, lensData, camera, filmDistanceLower,
                   filmDistanceUpper, bisection, fb, thickLens, pending, out>>

\* lines 621-622: the first while loop tests the value and either runs its
\* body and comes back to the condition, or ends
LowerTest ==
    /\ pc = "lowerTest"
    /\ IF FloatGT(focusValue, params.focusdistance)
       THEN /\ filmDistanceLower' = MulUp(filmDistanceLower)
            /\ pc' = "bracketLower"
       ELSE /\ pc' = "bracketUpper"
            /\ UNCHANGED filmDistanceLower
    /\ UNCHANGED <<params, result, logs, lensData, camera, filmDistanceUpper,
                   bisection, fb, focusValue, thickLens, pending, out>>

\* line 623: FocusDistance(filmDistanceUpper) is evaluated
BracketUpper ==
    /\ pc = "bracketUpper"
    /\ BracketEvaluate(FocusDistance(elementInterfaces, caFlag,
                                     filmDistanceUpper, ReferenceWavelength),
                       "upperTest")
    /\ UNCHANGED <<params, warnings, lensData, camera, filmDistanceLower,
                   filmDistanceUpper, bisection, fb, thickLens, pending, out>>

\* lines 623-624: the second while loop tests the value and either runs its
\* body and comes back to the condition, or ends; line 627: i = 0
UpperTest ==
    /\ pc = "upperTest"
    /\ IF FloatLT(focusValue, params.focusdistance)
       THEN /\ filmDistanceUpper' = DivDown(filmDistanceUpper)
            /\ pc' = "bracketUpper"
            /\ UNCHANGED bisection
       ELSE /\ pc' = "bisect"
            /\ bisection' = 0
            /\ UNCHANGED filmDistanceUpper
    /\ UNCHANGED <<params, result, logs, lensData, camera, filmDistanceLower,
                   fb, focusValue, thickLens, pending, out>>

\* A bisection that moves the other end of the bracket
BisectStepSwapped(fmid, midFocus) ==
    /\ calls' = calls \cup {"FocusDistance"}
    /\ errors' = FocusErrors(midFocus)
    /\ IF midFocus.abort
       THEN Abort /\ UNCHANGED <<filmDistanceLower, filmDistanceUpper,
                                 bisection>>
       ELSE /\ bisection' = bisection + 1
            /\ UNCHANGED <<pc, result>>
            /\ IF FloatLT(midFocus.value, params.focusdistance)
               THEN /\ filmDistanceUpper' = fmid
                    /\ UNCHANGED filmDistanceLower
               ELSE /\ filmDistanceLower' = fmid
                    /\ UNCHANGED filmDistanceUpper

\* lines 628-633, given the focus distance midFocus of fmid
BisectStep(fmid, midFocus) ==
    /\ calls' = calls \cup {"FocusDistance"}
    /\ errors' = FocusErrors(midFocus)
    /\ IF midFocus.abort
       THEN Abort /\ UNCHANGED <<filmDistanceLower, filmDistanceUpper,
                                 bisection>>
       ELSE /\ bisection' = bisection + 1
            /\ UNCHANGED <<pc, result>>
            /\ IF FloatLT(midFocus.value, params.focusdistance)
               THEN /\ filmDistanceLower' = fmid
                    /\ UNCHANGED filmDistanceUpper
               ELSE /\ filmDistanceUpper' = fmid
                    /\ UNCHANGED filmDistanceLower

\* lines 627-634: one step of the bisection
Bisect ==
    /\ pc = "bisect"
    /\ bisection < NBisections
    /\ BisectStep(Mid(filmDistanceLower, filmDistanceUpper),
           FocusDistance(elementInterfaces, caFlag,
                         Mid(filmDistanceLower, filmDistanceUpper),
                         ReferenceWavelength))
    /\ UNCHANGED <<params, warnings, lensData, camera, fb, focusValue,
                   thickLens, pending, out>>

\* lines 81-84: the film distance is installed, and logged with its focus
\* distance fd2; fd1 is the focus distance logged for the binary search
InstallLog(fd1, r, installed, fd2) ==
    /\ thickLens' = r
    /\ elementInterfaces' = installed
    /\ errors' = FocusErrors(fd1)
           \cup (IF fd2.error THEN {"focus ray"} ELSE {})
    /\ IF fd2.abort THEN Abort ELSE pc' = "print" /\ result' = result

\* lines 78-81: fb is logged with its focus distance fd1, and FocusThickLens
\* returns r
InstallThickLens(binarySearch, fd1, r, installed) ==
    /\ fb' = binarySearch
    /\ calls' = calls \cup {"FocusDistance", "FocusThickLens"}
    /\ IF fd1.abort
       THEN /\ Abort
            /\ errors' = errors
            /\ UNCHANGED <<elementInterfaces, thickLens>>
       ELSE IF r.abort
       THEN /\ Abort
            /\ errors' = FocusErrors(fd1)
            /\ thickLens' = r
            /\ UNCHANGED elementInterfaces
       ELSE InstallLog(fd1, r, installed,
                FocusDistance(installed, caFlag, LensRearZ(installed),
                              ReferenceWavelength))

InstallValue(binarySearch, fd1, r) ==
    InstallThickLens(binarySearch, fd1, r,
        [elementInterfaces EXCEPT
            ![Len(elementInterfaces)].thickness =
                InstalledFilmDistance(binarySearch, r.value)])

\* line 635 and lines 78-84: FocusBinarySearch returns, its result is
\* logged with its focus distance, and the film distance is installed and
\* logged with its focus distance
InstallFocus ==
    /\ pc = "bisect"
    /\ bisection = NBisections
    /\ InstallValue(Mid(filmDistanceLower, filmDistanceUpper),
           FocusDistance(elementInterfaces, caFlag,
                         Mid(filmDistanceLower, filmDistanceUpper),
                         ReferenceWavelength),
           FocusThickLens(elementInterfaces, caFlag, params.focusdistance,
                          ReferenceWavelength))
    /\ UNCHANGED <<params, warnings, lensData, exitPupilBounds,
                   simpleWeighting, caFlag, shutterOpen, shutterClose,
                   filmDistanceLower, filmDistanceUpper, bisection, focusValue,
                   pending, out>>

\* lines 93-98, given the focus distance fd printed
PrintStep(fd) ==
    /\ calls' = calls \cup {"FocusDistance"}
    /\ errors' = FocusErrors(fd)
    /\ IF fd.abort
       THEN Abort /\ UNCHANGED <<pending, exitPupilBounds>>
       ELSE /\ pc' = "pupil"
            /\ result' = result
            /\ exitPupilBounds' = [b \in 0..(NBands - 1) |-> EmptyBounds]
            /\ pending' = 0..(NBands - 1)

\* lines 93-94: the film distance and its focus distance are printed; line
\* 98: the exit pupil table is sized
PrintFilmDistance ==
    /\ pc = "print"
    /\ PrintStep(FocusDistance(elementInterfaces, caFlag,
                               LensRearZ(elementInterfaces),
                               ReferenceWavelength))
    /\ UNCHANGED <<params, warnings, lensData, elementInterfaces,
                   simpleWeighting, caFlag, shutterOpen, shutterClose, search,
                   thickLens, out>>

(***************************************************************************)
(* The constructor: the exit pupil table, lines 96-111                     *)
(***************************************************************************)
\* lines 100-101: the film interval of band i
BandStart(i) == RDiv(i * FilmDiagonal, 2 * NBands)

\* Workers that share slot 0 of the table
PupilBandShared(i) ==
    /\ pc = "pupil"
    /\ i \in pending
    /\ exitPupilBounds' =
           [exitPupilBounds EXCEPT
               ![0] = BoundExitPupil(elementInterfaces, caFlag, BandStart(i),
                                     BandStart(i + 1))]
    /\ pending' = pending \ {i}
    /\ UNCHANGED <<pc, params, result, logs, lensData, elementInterfaces,
                   simpleWeighting, caFlag, shutterOpen, shutterClose, search,
                   thickLens, out>>

\* lines 99-103: ParallelFor runs the bands in any order, each once
PupilBand(i) ==
    /\ pc = "pupil"
    /\ i \in pending
    /\ exitPupilBounds' =
           [exitPupilBounds EXCEPT
               ![i] = BoundExitPupil(elementInterfaces, caFlag, BandStart(i),
                                     BandStart(i + 1))]
    /\ pending' = pending \ {i}
    /\ UNCHANGED <<pc, params, result, logs, lensData, elementInterfaces,
                   simpleWeighting, caFlag, shutterOpen, shutterClose, search,
                   thickLens, out>>

\* A constructor that moves the film once more after the table is filled
FinishConstructionRefocus ==
    /\ pc = "pupil"
    /\ pending = {}
    /\ warnings' = warnings
           \cup (IF simpleWeighting THEN {"simpleweighting"} ELSE {})
    /\ pc' = "ready"
    /\ result' = "camera"
    /\ elementInterfaces' =
           [elementInterfaces EXCEPT ![Len(elementInterfaces)].thickness = @ + 1]
    /\ UNCHANGED <<params, errors, calls, lensData, exitPupilBounds,
                   simpleWeighting, caFlag, shutterOpen, shutterClose, search,
                   thickLens, pending, out>>

\* lines 105-111: the constructor returns, and CreateRealisticCamera
\* returns the camera
FinishConstruction ==
    /\ pc = "pupil"
    /\ pending = {}
    /\ warnings' = warnings
           \cup (IF simpleWeighting THEN {"simpleweighting"} ELSE {})
    /\ pc' = "ready"
    /\ result' = "camera"
    /\ UNCHANGED <<params, errors, calls, lensData, camera, search, thickLens,
                   pending, out>>

(***************************************************************************)
(* GenerateRay, lines 823-856                                              *)
(***************************************************************************)
\* lines 838-855: what GenerateRay returns, given the sample s of the exit
\* pupil, the film ray and its trace tr
RayOutcome(pFilm2, s, rFilm, tr) ==
    [called |-> TRUE, pFilm |-> pFilm2, rIndex |-> s.rIndex,
     traceOk |-> tr.ok, written |-> tr.written, blockedAt |-> tr.blockedAt,
     weight |->
         IF ~tr.ok THEN 0
         ELSE RayWeight(simpleWeighting, shutterOpen, shutterClose,
                        Cos4Theta(rFilm.d), s.sampleBoundsArea,
                        Area(exitPupilBounds[0]),
                        LensRearZ(elementInterfaces))]

\* The ray is handed back, unless CHECK_GE(t, 0) ended the process
ReturnRay(pFilm2, s, rFilm, tr) ==
    IF tr.status = "abort"
    THEN Abort /\ UNCHANGED out
    ELSE out' = RayOutcome(pFilm2, s, rFilm, tr) /\ UNCHANGED <<pc, result>>

\* lines 836-838: the film ray from pFilm to the sample s of the exit pupil
TraceFilmRay(pFilm2, s, rFilm, wavelength) ==
    ReturnRay(pFilm2, s, rFilm,
        TraceLensesFromFilm(elementInterfaces, caFlag, rFilm, TRUE,
                            wavelength))

SampleFilmRay(pFilm2, pFilm, s, wavelength) ==
    TraceFilmRay(pFilm2, s, Ray(pFilm, Sub(s.pRear, pFilm), wavelength),
                 wavelength)

\* pFilm2 is the point of the film's physical extent the sample maps to,
\* wavelength the wavelength field of *ray on entry
GenerateRay(pFilm2, lensSample, wavelength) ==
    /\ pc = "ready"
    /\ SampleFilmRay(pFilm2, <<-pFilm2[1], pFilm2[2], 0>>,
           SampleExitPupil(elementInterfaces, exitPupilBounds, NBands,
                           <<-pFilm2[1], pFilm2[2]>>, lensSample),
           wavelength)
    /\ UNCHANGED <<params, logs, lensData, camera, search, thickLens,
                   pending>>

(***************************************************************************)
(* The specification                                                       *)
(***************************************************************************)
Next ==
    \/ CreateRealisticCamera
    \/ BuildElements
    \/ EmptyLensBack
    \/ HardSetFilmDistance
    \/ StartFocusBinarySearch
    \/ BracketLower
    \/ LowerTest
    \/ BracketUpper
    \/ UpperTest
    \/ Bisect
    \/ InstallFocus
    \/ PrintFilmDistance
    \/ \E i \in 0..(NBands - 1) : PupilBand(i)
    \/ FinishConstruction
    \/ \E pFilm2 \in FilmPoints, lensSample \in LensSamples,
          wavelength \in Wavelengths :
           GenerateRay(pFilm2, lensSample, wavelength)

Spec == Init /\ [][Next]_vars

\* FocusBinarySearch keeps running: each of its steps is taken when the
\* process stays at it.  For the steps that evaluate FocusDistance, weak
\* fairness is written with the condition under which the step can be taken
\* in the place of ENABLED: BracketLower, BracketUpper and the steps of the
\* bisection can be taken, and change pc or bisection, whenever pc is at
\* them.
FairSpec ==
    /\ Spec
    /\ WF_vars(LowerTest)
    /\ WF_vars(UpperTest)
    /\ []<>(pc # "bracketLower") \/ []<><<BracketLower>>_vars
    /\ []<>(pc # "bracketUpper") \/ []<><<BracketUpper>>_vars
    /\ []<>(pc # "bisect") \/ []<><<Bisect \/ InstallFocus>>_vars

(***************************************************************************)
(* The properties of the camera                                            *)
(***************************************************************************)
\* The elements as the lens file gives them: the element loop run again on
\* lensData, which keeps the thickness of the file for the last element
FileElements ==
    ElementLoop(params.aperturediameter, 1,
        [lensData |-> lensData, elems |-> <<>>, clamped |-> FALSE]).elems

\* The constructor is past the choice of the film distance
FilmDistanceSet == pc \in {"print", "pupil", "ready"}

\* C1: GenerateRay returns weight 0 whenever the trace of the film ray
\* fails, and the weight it returns is never below 0 (a NaN is not >= 0),
\* with and without simple weighting.
C1_WeightContract ==
    out.called =>
        /\ (~out.traceOk => out.weight = 0)
        /\ FloatGE(out.weight, 0)

\* C1, the state that breaks it: the trace went through and the weight is
\* 0 / 0, the exit pupil bounds of the film point having no area
C1_NaNWeight ==
    /\ out.called
    /\ out.traceOk
    /\ out.weight = NaN

\* C2: without an explicit film distance, the thickness of the last element
\* after construction is what FocusThickLens(focusDistance) returns for the
\* lens of the file; FocusBinarySearch and FocusThickLens both ran.
C2_ThickLensInstalled ==
    (FilmDistanceSet /\ params.filmdistance = 0) =>
        /\ {"FocusBinarySearch", "FocusThickLens"} \subseteq calls
        /\ LensRearZ(elementInterfaces) =
               FocusThickLens(FileElements, caFlag, params.focusdistance,
                              ReferenceWavelength).value

\* C2 as stated: the thickness of the last element after construction is
\* the result of FocusBinarySearch.
C2_BinarySearchInstalled ==
    (FilmDistanceSet /\ params.filmdistance = 0) =>
        LensRearZ(elementInterfaces) = fb

\* C2: a camera focused by the solver whose binary search ended on another
\* value than the one installed
C2_FocusSolvedCamera ==
    /\ result = "camera"
    /\ Len(elementInterfaces) > 0
    /\ params.filmdistance = 0
    /\ thickLens.called
    /\ fb # LensRearZ(elementInterfaces)

\* C3: with an explicit film distance, the thickness of the last element is
\* that film distance, neither FocusThickLens nor FocusBinarySearch is called
\* and the locals of the search are left alone; FocusDistance is called, for
\* the log messages.
C3_HardSetFilmDistance ==
    (FilmDistanceSet /\ params.filmdistance # 0) =>
        /\ LensRearZ(elementInterfaces) = params.filmdistance
        /\ calls = {"FocusDistance"}
        /\ ~thickLens.called
        /\ filmDistanceLower = 0 /\ filmDistanceUpper = 0 /\ fb = 0

\* C3 as stated: with an explicit film distance, construction calls none of
\* FocusThickLens, FocusBinarySearch and FocusDistance.
C3_NoFocusRoutine ==
    (Len(elementInterfaces) > 0 /\ params.filmdistance # 0) =>
        calls \cap {"FocusThickLens", "FocusBinarySearch", "FocusDistance"}
            = {}

\* C3: a camera built with an explicit film distance
C3_HardSetCamera ==
    /\ result = "camera"
    /\ Len(elementInterfaces) > 0
    /\ params.filmdistance # 0
    /\ LensRearZ(elementInterfaces) = params.filmdistance

\* The rows of the lens description the constructor is given
FileRows == 1..(Len(LoadLensData(params.lensfile).data) \div 4)
FileValue(row, column) ==
    LoadLensData(params.lensfile).data[4 * (row - 1) + column]
IsStopRow(row) == FileValue(row, 1) = 0

\* C4: once the element loop has run, the aperture of every stop row is
\* min(requested diameter, the maximum of the row), the aperture of every
\* other row is the one of the file, the clamp warning is there exactly when
\* a stop asked for more than its maximum, and construction has not failed.
C4_StopAperture ==
    (pc \notin {"create", "elements", "returned"}) =>
        /\ Len(elementInterfaces) = Cardinality(FileRows)
        /\ \A row \in FileRows :
               elementInterfaces[row].apertureRadius =
                   IF IsStopRow(row)
                   THEN Min(params.aperturediameter, FileValue(row, 4))
                   ELSE FileValue(row, 4)
        /\ ("aperture clamp" \in warnings) <=>
               \E row \in FileRows :
                   /\ IsStopRow(row)
                   /\ params.aperturediameter > FileValue(row, 4)
        /\ result # "nullptr"

\* C4: a stop that was asked for more than its maximum and kept the
\* maximum, in a camera that was built
C4_ClampedStop ==
    /\ result = "camera"
    /\ "aperture clamp" \in warnings
    /\ \E row \in FileRows :
           /\ IsStopRow(row)
           /\ params.aperturediameter > FileValue(row, 4)
           /\ elementInterfaces[row].apertureRadius = FileValue(row, 4)

\* The values of the lens file, whatever CreateRealisticCamera does of them
FileData == ReadFloatFile(params.lensfile).data
FileReadable == params.lensfile # "" /\ ReadFloatFile(params.lensfile).ok

\* The values v, four a row, are the ones the elements were built from: the
\* curvature radius, the index of refraction, the thickness of every row
\* but the last, and the aperture of every row that is not a stop
BuiltFrom(v) ==
    /\ Len(elementInterfaces) * 4 = Len(v)
    /\ \A row \in 1..Len(elementInterfaces) :
           /\ elementInterfaces[row].curvatureRadius = 2 * v[4 * row - 3]
           /\ elementInterfaces[row].eta = v[4 * row - 1]
           /\ row < Len(elementInterfaces) =>
                  elementInterfaces[row].thickness = 2 * v[4 * row - 2]
           /\ v[4 * row - 3] # 0 =>
                  elementInterfaces[row].apertureRadius = v[4 * row]

\* The constructor was never run
NoCamera ==
    /\ pc = "returned"
    /\ result = "nullptr"
    /\ elementInterfaces = <<>>
    /\ calls = {}

\* C5: after CreateRealisticCamera has read the file: 4k values are taken
\* as they are; of 4k+1 values the first is dropped with a warning and the
\* elements are built from the 4k others in their order; 4k+2 or 4k+3
\* values give an error and no camera, the constructor not being run; no
\* file name or an unreadable file gives no camera.
C5_LensDataCount ==
    (pc # "create") =>
        IF ~FileReadable THEN NoCamera /\ errors # {}
        ELSE IF Len(FileData) % 4 = 0
        THEN /\ pc # "returned"
             /\ "extra value" \notin warnings
             /\ pc # "elements" => BuiltFrom(FileData)
             /\ pc = "elements" => lensData = FileData
        ELSE IF Len(FileData) % 4 = 1
        THEN /\ pc # "returned"
             /\ "extra value" \in warnings
             /\ pc # "elements" => BuiltFrom(Tail(FileData))
             /\ pc = "elements" => lensData = Tail(FileData)
        ELSE NoCamera /\ "excess values" \in errors

\* C5: a camera built from a file of 4k+1 values
C5_ExtraValueCamera ==
    /\ result = "camera"
    /\ Len(elementInterfaces) > 0
    /\ Len(FileData) % 4 = 1
    /\ "extra value" \in warnings

\* Rays of the scene, parallel to the axis at height x, as
\* ComputeThickLensApproximation sends them
SceneHeights == {1, 5, 7, 11}
SceneTrace(x) ==
    TraceSummary(
        TraceLensesFromScene(elementInterfaces,
            Ray(<<x, 0, LensFrontZ(elementInterfaces) + 1>>, <<0, 0, -1>>,
                ReferenceWavelength), TRUE))

\* A trace that failed the aperture test of an element has failed, and has
\* not written its output ray
BlockedIsFailed(tr) == tr.blockedAt # 0 => (~tr.ok /\ ~tr.written)

\* C6: a trace that fails the aperture test of an element returns failure
\* and does not write its output ray: the trace from the film of GenerateRay
\* and of the thick lens approximation, the trace from the scene of the
\* thick lens approximation and of rays sent into a camera that was built.
C6_ApertureFailureIsFinal ==
    /\ out.blockedAt # 0 =>
           (~out.traceOk /\ ~out.written /\ out.weight = 0)
    /\ BlockedIsFailed(thickLens.film)
    /\ BlockedIsFailed(thickLens.scene)
    /\ pc = "ready" => \A x \in SceneHeights : BlockedIsFailed(SceneTrace(x))

\* C6: GenerateRay had its film ray stopped by an element that has other
\* elements after it, and a ray of the scene is stopped by an element of the
\* same camera that has other elements after it
C6_BlockedBothWays ==
    /\ pc = "ready"
    /\ out.called
    /\ out.blockedAt > 1
    /\ \E x \in SceneHeights :
           /\ SceneTrace(x).blockedAt > 0
           /\ SceneTrace(x).blockedAt < Len(elementInterfaces)

\* C7: a camera that is returned has at least one element, and no lens
\* without elements gets to the point where back() is called on it.
C7_NeverBackOnEmptyLens ==
    /\ pc # "undefined"
    /\ result = "camera" => Len(elementInterfaces) >= 1

\* C8: once FocusDistance has found no ray through the lens for any scale
\* factor and has reported it, construction does not give a camera.
C8_FocusFailureStopsConstruction ==
    "focus ray" \in errors => result # "camera"

\* C8, the state that breaks it: a camera returned after the error
C8_CameraAfterFocusError ==
    /\ result = "camera"
    /\ Len(elementInterfaces) > 0
    /\ "focus ray" \in errors

\* C9: FocusBinarySearch, once started, comes to its end (its result is
\* installed, or the process is ended by a CHECK).
C9_FocusBinarySearchTerminates ==
    (pc = "bracketLower") ~>
        (pc \notin {"bracketLower", "lowerTest", "bracketUpper", "upperTest",
                    "bisect"})

\* C9, the state from which the first while loop does not come out: the
\* lower bound has run to -Infinity, which the body of the loop leaves as it
\* is, and FocusDistance gives Infinity for it
C9_LowerBoundDiverged ==
    /\ pc = "lowerTest"
    /\ filmDistanceLower = NegInfinity
    /\ focusValue = Infinity

\* C10: FocusThickLens, once the thick lens approximation is computed, ends
\* the process exactly when c > 0 does not hold, c = 0 included; otherwise
\* it returns the thickness of the last element plus delta.
C10_AbortUnlessPositive ==
    (thickLens.called /\ thickLens.traced) =>
        /\ thickLens.abort <=> ~FloatGT(thickLens.c, 0)
        /\ ~thickLens.abort =>
               thickLens.value = LensRearZ(FileElements) + thickLens.delta

\* C10 as stated: FocusThickLens ends the process exactly when c < 0.
C10_AbortOnlyWhenNegative ==
    (thickLens.called /\ thickLens.traced) =>
        (thickLens.abort <=> FloatLT(thickLens.c, 0))

\* C10: FocusThickLens ended the process with c = 0
C10_ZeroCoefficientAborts ==
    /\ thickLens.called
    /\ thickLens.traced
    /\ thickLens.c = 0
    /\ thickLens.abort
    /\ pc = "aborted"

\* The bands of the exit pupil table, the samples of a band, and the trace
\* BoundExitPupil runs for sample s of band i in the camera as it is
Bands == 0..(NBands - 1)
PupilSamples == 0..(NPupilSamples - 1)
BandFilled(i) == pc \in {"pupil", "ready"} /\ i \notin pending
BandSampleRear(s) == PupilSampleRear(elementInterfaces, s)
BandSampleExits(i, s) ==
    TraceLensesFromFilm(elementInterfaces, caFlag,
        Ray(PupilSampleFilm(s, BandStart(i), BandStart(i + 1)),
            Sub(BandSampleRear(s),
                PupilSampleFilm(s, BandStart(i), BandStart(i + 1))),
            ReferenceWavelength),
        FALSE, ReferenceWavelength).ok
RearSquare(h) == [pMin |-> <<-h, -h>>, pMax |-> <<h, h>>]

\* C11: a band none of whose samples gets through the lens has, as its
\* entry of the table, the square of half side 1.5 times the radius of the
\* rear element, with no margin added.
C11_NoSampleGivesRearSquare ==
    \A i \in Bands :
        (BandFilled(i) /\ \A s \in PupilSamples : ~BandSampleExits(i, s)) =>
            exitPupilBounds[i] =
                RearSquare(RDiv(3 * RearElementRadius(elementInterfaces), 2))

\* C11: a camera with a rear element of radius above 0 and a band with no
\* sample through the lens
C11_BandWithoutExitingRay ==
    /\ pc = "ready"
    /\ RearElementRadius(elementInterfaces) > 0
    /\ \E i \in Bands : \A s \in PupilSamples : ~BandSampleExits(i, s)

\* C12: while the table is built it has one slot a band, sized before the
\* first worker runs; a step runs at most one worker, which writes the slot
\* of its band and no other, with a value that depends on the lens and on
\* the band alone; the slots of the bands still to run are as the sizing
\* left them; the lens is not written.  The table is then the same for
\* every order of the workers.
C12_BandWorkersIndependent ==
    [][pc = "pupil" =>
          /\ DOMAIN exitPupilBounds = Bands
          /\ elementInterfaces' = elementInterfaces
          /\ Cardinality(pending \ pending') <= 1
          /\ \A i \in Bands :
                 /\ exitPupilBounds'[i] # exitPupilBounds[i] =>
                        (i \in pending /\ i \notin pending')
                 /\ exitPupilBounds'[i] =
                        IF i \in pending' THEN EmptyBounds
                        ELSE BoundExitPupil(elementInterfaces, caFlag,
                                            BandStart(i), BandStart(i + 1))]_vars

\* C12: the worker of a later band has finished before the worker of band
\* 0, and has left another value in its slot than the sizing did
C12_LaterBandFirst ==
    /\ pc = "pupil"
    /\ 0 \in pending
    /\ \E i \in Bands \ pending : exitPupilBounds[i] # EmptyBounds

\* Rays from the film parallel to the axis at height x, as
\* ComputeThickLensApproximation sends them, with the wavelength wl in the
\* output ray; and the ray a trace hands back, sent the other way from a
\* point further out on it
FilmHeights == {0, 1, 2}
ParallelFilmTrace(x, wl) ==
    TraceLensesFromFilm(elementInterfaces, caFlag,
        Ray(<<x, 0, LensRearZ(elementInterfaces) - 1>>, <<0, 0, 1>>, wl),
        TRUE, wl)
ReversedRay(r) == Ray(RayAt(r, TS \div 4), Neg(r.d), r.wavelength)
BackTrace(tr) ==
    TraceLensesFromScene(elementInterfaces, ReversedRay(tr.ray), TRUE)

\* At every element both traces went through, the vertex is at the same
\* place and the index ratios etaI / etaT are reciprocal
StepsReciprocal(f, s) ==
    \A a \in 1..Len(f.steps), b \in 1..Len(s.steps) :
        f.steps[a].i = s.steps[b].i =>
            /\ f.steps[a].z = s.steps[b].z
            /\ f.steps[a].etaI * s.steps[b].etaI =
                   f.steps[a].etaT * s.steps[b].etaT

\* C13: a ray traced from the film and its result traced back from the
\* scene use, at every element, the same vertex position and reciprocal
\* index ratios.
C13_TimeReversal ==
    pc = "ready" =>
        \A x \in FilmHeights, wl \in Wavelengths :
            ParallelFilmTrace(x, wl).ok =>
                StepsReciprocal(ParallelFilmTrace(x, wl),
                                BackTrace(ParallelFilmTrace(x, wl)))

\* C13, the state that breaks it: with chromatic aberration enabled, a ray
\* of 400 nm goes through the lens both ways, and the two traces have used
\* index ratios that are not reciprocal
C13_OneWayDispersion ==
    /\ pc = "ready"
    /\ caFlag
    /\ \E x \in FilmHeights :
           /\ ParallelFilmTrace(x, 400).ok
           /\ BackTrace(ParallelFilmTrace(x, 400)).ok
           /\ ~StepsReciprocal(ParallelFilmTrace(x, 400),
                               BackTrace(ParallelFilmTrace(x, 400)))

\* lines 121-125 of We (and of Pdf_We): the ray handed to
\* TraceLensesFromScene is the caller's ray turned round and backed up by
\* its own direction; CameraToWorld is the identity here
NegRay(ray) == Ray(Sub(ray.o, Neg(ray.d)), Neg(ray.d), ray.wavelength)

\* Rays as Sample_Wi hands them to We: from a point of the plane z = 0
\* towards the scene, the z-component of the direction being dz
WeDepths == {1, SC}
WeTrace(dz) ==
    TraceLensesFromScene(elementInterfaces,
        NegRay(Ray(<<0, 0, 0>>, <<0, 0, dz>>, ReferenceWavelength)), TRUE)

TraceAsserts(tr) == tr.status \in {"abort", "nonfinite"}

\* C14: a trace that meets the stop with a ray that cannot reach the plane
\* of the stop returns failure: neither tracer divides by a zero z-component
\* nor fails the assertion t >= 0.
C14_StopUnreachableFails ==
    pc = "ready" =>
        /\ \A dz \in WeDepths : ~TraceAsserts(WeTrace(dz))
        /\ \A x \in FilmHeights : ~TraceAsserts(ParallelFilmTrace(x, 550))

\* C14, the state that breaks it: the front element is the stop, the ray
\* starts between the stop and the film, and the trace from the scene ends
\* in the failed assertion
C14_RayStartsBehindStop ==
    /\ pc = "ready"
    /\ elementInterfaces[1].curvatureRadius = 0
    /\ WeTrace(1).status = "abort"
    /\ ~WeTrace(1).ok

\* The indices a trace has used are never zero at a refracting element
\* (the steps of a stop carry no index)
IndicesNonZero(elems, tr) ==
    \A a \in 1..Len(tr.steps) :
        elems[tr.steps[a].i].curvatureRadius # 0 =>
            tr.steps[a].etaI # 0 /\ tr.steps[a].etaT # 0

\* The index of the medium a row of the lens file records: 1 when it
\* records 0, and 1 when there is no such row
RecordedIndex(elems, i) ==
    IF i < 1 \/ elems[i].eta = 0 THEN ES ELSE elems[i].eta

\* C15: at every refracting element both tracers use the index 1 for a side
\* whose element records eta 0 or is missing, so that neither index of the
\* ratio is zero.
C15_ZeroEtaIsAir ==
    pc = "ready" =>
        \A i \in 1..Len(elementInterfaces) :
            elementInterfaces[i].curvatureRadius # 0 =>
                /\ SceneEtaI(elementInterfaces, i) = RecordedIndex(elementInterfaces, i - 1)
                /\ SceneEtaT(elementInterfaces, i) = RecordedIndex(elementInterfaces, i)
                /\ FilmEtaT(elementInterfaces, i) = RecordedIndex(elementInterfaces, i - 1)
                /\ \A x \in FilmHeights :
                       IndicesNonZero(elementInterfaces, ParallelFilmTrace(x, 550))

\* C15, the state that breaks it: a refracting element records eta 0, and a
\* trace from the film goes through it with the index 0 on its near side
C15_FilmTraceUsesZeroIndex ==
    /\ pc = "ready"
    /\ ~caFlag
    /\ \E x \in FilmHeights :
           /\ ParallelFilmTrace(x, 550).ok
           /\ \E a \in 1..Len(ParallelFilmTrace(x, 550).steps) :
                  /\ ParallelFilmTrace(x, 550).steps[a].etaI = 0
                  /\ elementInterfaces[ParallelFilmTrace(x, 550).steps[a].i].curvatureRadius # 0

\* A ray of wavelength wl from the scene parallel to the axis at height x
ParallelSceneTrace(x, wl) ==
    TraceLensesFromScene(elementInterfaces,
        Ray(<<x, 0, LensFrontZ(elementInterfaces) + 1>>, <<0, 0, -1>>, wl),
        TRUE)

\* The index the claim describes: shifted by the linear function of the
\* wavelength when the mode is on and the wavelength is in the band, and
\* left alone otherwise
BandWavelengths == {400, 800}
PerturbedIndex(wl, eta) ==
    IF caFlag /\ wl >= 400 /\ wl <= 700 THEN Dispersion(eta, wl) ELSE eta

FilmIndicesPerturbed(tr, wl) ==
    \A a \in 1..Len(tr.steps) :
        elementInterfaces[tr.steps[a].i].curvatureRadius # 0 =>
            /\ tr.steps[a].etaI =
                   PerturbedIndex(wl, elementInterfaces[tr.steps[a].i].eta)
            /\ tr.steps[a].etaT =
                   PerturbedIndex(wl, FilmEtaT(elementInterfaces, tr.steps[a].i))
SceneIndicesPerturbed(tr, wl) ==
    \A a \in 1..Len(tr.steps) :
        elementInterfaces[tr.steps[a].i].curvatureRadius # 0 =>
            /\ tr.steps[a].etaI =
                   PerturbedIndex(wl, SceneEtaI(elementInterfaces, tr.steps[a].i))
            /\ tr.steps[a].etaT =
                   PerturbedIndex(wl, SceneEtaT(elementInterfaces, tr.steps[a].i))

\* C16: with chromatic aberration enabled and the wavelength in [400, 700]
\* both tracers shift both indices of every refracting interface by the
\* same linear function of (wavelength - 550); otherwise no index is
\* shifted.
C16_BothTracersDisperse ==
    pc = "ready" =>
        \A x \in FilmHeights, wl \in BandWavelengths :
            /\ FilmIndicesPerturbed(ParallelFilmTrace(x, wl), wl)
            /\ SceneIndicesPerturbed(ParallelSceneTrace(x, wl), wl)

\* C16, the state that breaks it: the mode is on, a ray of 400 nm from the
\* scene goes through the whole lens, and the glass has been given the index
\* of the lens file
C16_SceneTraceUndispersed ==
    /\ pc = "ready"
    /\ caFlag
    /\ \E x \in FilmHeights :
           /\ ParallelSceneTrace(x, 400).ok
           /\ \E a \in 1..Len(ParallelSceneTrace(x, 400).steps) :
                  /\ ParallelSceneTrace(x, 400).steps[a].etaT = 150
                  /\ Dispersion(150, 400) # 150

\* pupilBounds and nExitingRays of band i after the first n samples of the
\* loop of BoundExitPupil
BandSample(i, s, acc) ==
    IF acc.nExitingRays > s THEN acc
    ELSE PupilSampleStep(elementInterfaces, caFlag, acc, s, BandStart(i),
                         BandStart(i + 1))
RECURSIVE BandPrefix(_, _)
BandPrefix(i, n) ==
    IF n = 0 THEN [pupilBounds |-> EmptyBounds, nExitingRays |-> 0]
    ELSE BandSample(i, n - 1, BandPrefix(i, n - 1))

\* box a lies in box b (the empty box lies in every box)
BoundsWithin(a, b) ==
    /\ b.pMin[1] <= a.pMin[1] /\ b.pMin[2] <= a.pMin[2]
    /\ a.pMax[1] <= b.pMax[1] /\ a.pMax[2] <= b.pMax[2]
RearPoint2(s) == <<BandSampleRear(s)[1], BandSampleRear(s)[2]>>
TableComplete == pc = "pupil" /\ pending = {}

\* C17: the running bound of BoundExitPupil never shrinks from one sample
\* to the next, and when a sample has passed, the bound returned contains
\* the running bound and with it every sampled rear point whose trace from
\* the film succeeds.
C17_PupilBoundGrows ==
    TableComplete =>
        \A i \in Bands :
            /\ \A n \in 1..NPupilSamples :
                   BoundsWithin(BandPrefix(i, n - 1).pupilBounds,
                                BandPrefix(i, n).pupilBounds)
            /\ BandPrefix(i, NPupilSamples).nExitingRays > 0 =>
                   /\ BoundsWithin(BandPrefix(i, NPupilSamples).pupilBounds,
                                   exitPupilBounds[i])
                   /\ \A s \in PupilSamples :
                          BandSampleExits(i, s) =>
                              /\ Inside(RearPoint2(s), BandPrefix(i, NPupilSamples).pupilBounds)
                              /\ Inside(RearPoint2(s), exitPupilBounds[i])

\* C17, its case: in a band some samples exit and some do not, and one
\* sample was accepted because its rear point was inside the running bound
C17_AcceptedInsideBound ==
    /\ TableComplete
    /\ \E i \in Bands :
           /\ \E s \in PupilSamples : BandSampleExits(i, s)
           /\ BandPrefix(i, NPupilSamples).nExitingRays < NPupilSamples
           /\ \E n \in 1..(NPupilSamples - 1) :
                  Inside(RearPoint2(n), BandPrefix(i, n).pupilBounds)

\* FocusDistance of a film distance for the lens as it stands
FocusOf(filmDistance) ==
    FocusDistance(elementInterfaces, caFlag, filmDistance,
                  ReferenceWavelength).value
Straddles(lowerFocus, upperFocus) ==
    /\ FloatGE(params.focusdistance, lowerFocus)
    /\ FloatGE(upperFocus, params.focusdistance)
OneEndpointToMid(fmid) ==
    \/ filmDistanceLower' = fmid /\ filmDistanceUpper' = filmDistanceUpper
    \/ filmDistanceUpper' = fmid /\ filmDistanceLower' = filmDistanceLower

\* C18: when the bracketing loops of FocusBinarySearch have ended, and after
\* every one of the 20 bisections, FocusDistance(filmDistanceLower) <=
\* focusDistance <= FocusDistance(filmDistanceUpper); a bisection replaces
\* exactly one end of the bracket by its midpoint, and the value returned
\* after the twentieth is the midpoint of the last bracket.
C18_BisectionKeepsBracket ==
    [][pc = "bisect" =>
          /\ bisection \in 0..NBisections
          /\ Straddles(FocusOf(filmDistanceLower), FocusOf(filmDistanceUpper))
          /\ pc' = "bisect" =>
                 /\ bisection' = bisection + 1
                 /\ OneEndpointToMid(Mid(filmDistanceLower, filmDistanceUpper))
          /\ pc' \notin {"bisect", "aborted"} =>
                 /\ bisection = NBisections
                 /\ fb' = Mid(filmDistanceLower, filmDistanceUpper)]_vars

\* C18, its case: the twentieth bisection is done, both ends of the bracket
\* have moved, and they are still apart
C18_TwentyBisectionsDone ==
    /\ pc = "bisect"
    /\ bisection = NBisections
    /\ thickLens.called
    /\ filmDistanceLower # thickLens.value
    /\ filmDistanceUpper # thickLens.value

\* C19: the exit pupil table is written only once the thickness of the rear
\* element has its final value: from the sizing of the table on the lens
\* elements never change, the finished table holds the bounds of the lens
\* as it stands, and no step after construction (GenerateRay and the traces
\* it runs) changes the elements or the table.
C19_TableAfterFinalThickness ==
    [][/\ exitPupilBounds' # exitPupilBounds => pc \in {"print", "pupil"}
       /\ pc \in {"print", "pupil", "ready"} =>
              elementInterfaces' = elementInterfaces
       /\ pc = "ready" => exitPupilBounds' = exitPupilBounds
       /\ (pc = "pupil" /\ pc' = "ready") =>
              \A i \in Bands :
                  exitPupilBounds'[i] =
                      BoundExitPupil(elementInterfaces', caFlag',
                                     BandStart(i), BandStart(i + 1))]_vars

\* C19, its case: the focus solver has moved the film, the table is filled,
\* and GenerateRay has run on the finished camera
C19_RayFromFocusedCamera ==
    /\ pc = "ready"
    /\ out.called
    /\ thickLens.called
    /\ LensRearZ(elementInterfaces) = thickLens.value
    /\ LensRearZ(elementInterfaces) # 2 * lensData[Len(lensData) - 2]
    /\ \A i \in Bands : exitPupilBounds[i] # EmptyBounds

\* The slot the claim gives a film point at distance r from the centre: the
\* band i with i / n <= r / (diagonal / 2) < (i + 1) / n, and the last band
\* from the half diagonal on
SlotOfRadius(r, n) ==
    IF 2 * r >= FilmDiagonal THEN n - 1
    ELSE CHOOSE i \in 0..(n - 1) :
             i * FilmDiagonal <= 2 * n * r /\ 2 * n * r < (i + 1) * FilmDiagonal
FilmRadius(pFilm) == ISqrt(pFilm[1] * pFilm[1] + pFilm[2] * pFilm[2])

\* C20: SampleExitPupil reads a slot the table has, for every film point up
\* to and beyond the half diagonal, and it is the slot of the band the
\* point lies in.
C20_SlotOfFilmPoint ==
    pc = "ready" =>
        /\ DOMAIN exitPupilBounds = Bands
        /\ out.called =>
               /\ out.rIndex \in DOMAIN exitPupilBounds
               /\ out.rIndex = SlotOfRadius(FilmRadius(out.pFilm), NBands)
        /\ ~out.called =>
               \A r \in 0..FilmDiagonal :
                   /\ PupilIndex(r, NBands) \in DOMAIN exitPupilBounds
                   /\ PupilIndex(r, NBands) = SlotOfRadius(r, NBands)

\* C20, its case: GenerateRay has sampled the pupil for a film point on the
\* half diagonal and read the last slot, and for one in the first band
C20_CornerReadsLastSlot ==
    /\ pc = "ready"
    /\ out.called
    /\ 2 * FilmRadius(out.pFilm) = FilmDiagonal
    /\ out.rIndex = NBands - 1
    /\ NBands > 1

(***************************************************************************)
(* We and Pdf_We, lines 114-201                                            *)
(***************************************************************************)
\* A positive Float is held here as its binary exponent: the products and
\* the quotient of lines 152-156 and 198-200 are sums and a difference of
\* exponents.  The exponents of a Float (the smallest is that of the
\* smallest denormal):
FloatMaxExp == 127
FloatMinExp == -149
\* Below every exponent: the Float 0.  Infinity is above every exponent.
FloatZero == NegInfinity

\* A result whose exponent leaves the range overflows to the infinity, or
\* underflows to 0
ExpRound(k) ==
    IF k > FloatMaxExp THEN Infinity
    ELSE IF k < FloatMinExp THEN FloatZero
    ELSE k

\* a * b.  One of the factors is a power of two or the product is far from
\* the ends of the range; 0 and the infinity never meet, both coming from
\* the same cosine.
ExpMul(a, b) ==
    IF a = Infinity \/ b = Infinity THEN Infinity
    ELSE IF a = FloatZero \/ b = FloatZero THEN FloatZero
    ELSE ExpRound(a + b)

\* 1 / a: 1 / 0 is the infinity and 1 / infinity is 0; the exponent of the
\* quotient is rounded up
ExpRecip(a) ==
    IF a = FloatZero THEN Infinity
    ELSE IF a = Infinity THEN FloatZero
    ELSE ExpRound(-a)

RECURSIVE Log2(_)
Log2(n) == IF n <= 1 THEN 0 ELSE 1 + Log2(n \div 2)

\* float A = 0.5f, and Pi * lensRadius * lensRadius with lensRadius
\* 0.00855f: 2.2966e-4, between 2^-13 and 2^-12
AExp == -1
LensAreaExp == -13

\* The rays handed to We and Pdf_We: the direction is d * 2^e (e >= 0; a
\* ray need not have a unit direction), CameraToWorld is the identity.
\* Directions longer than a unit vector lie on the axis.
WeRay(o, d, e) == [o |-> o, d |-> d, e |-> e]
WeRays ==
    {WeRay(o, d, 0) :
        o \in {<<0, 0, 0>>, <<2, 0, 0>>, <<50, 0, 0>>},
        d \in {<<0, 0, SC>>, <<0, 0, -SC>>, <<SC, 0, 0>>, <<8, 0, 63>>,
               <<45, 0, 45>>, <<0, 0, 1>>}}
    \cup {WeRay(<<0, 0, 0>>, <<0, 0, SC>>, e) : e \in {35, 36, 42, 43, 64}}

\* lines 119 and 164: the exponent of cosTheta = Dot(ray.d, (0, 0, 1)), for
\* a ray with cosTheta > 0
CosThetaExp(ray) == ray.e + Log2(ray.d[3]) - Log2(SC)

\* lines 123-129 and 170-176: the trace of the ray turned round.  The
\* longer the direction, the further from the lens the ray is backed up;
\* the origin stays at one length of d, the line being the same.
WeNegTrace(ray) ==
    TraceLensesFromScene(elementInterfaces,
        NegRay(Ray(ray.o, ray.d, ReferenceWavelength)), TRUE)

\* film->GetPhysicalExtent(): the box around the axis with the diagonal of
\* the film, its sides as 3 to 4
GetPhysicalExtent ==
    [pMin |-> <<-((3 * FilmDiagonal) \div 10), -((4 * FilmDiagonal) \div 10)>>,
     pMax |-> <<(3 * FilmDiagonal) \div 10, (4 * FilmDiagonal) \div 10>>]

\* lines 133-136 and 182-185: toFilmRay(-toFilmRay.d.z), x negated
WeFilmPoint(toFilmRay) ==
    <<-RayAt(toFilmRay, RDiv(-toFilmRay.d[3] * TS, SC))[1],
      RayAt(toFilmRay, RDiv(-toFilmRay.d[3] * TS, SC))[2]>>

\* lines 139-140 and 188-189
OutOfBounds(pFilm2, fBounds) ==
    \/ pFilm2[1] < fBounds.pMin[1] \/ pFilm2[1] >= fBounds.pMax[1]
    \/ pFilm2[2] < fBounds.pMin[2] \/ pFilm2[2] >= fBounds.pMax[2]

\* lines 148-156: 1 / (A * lensArea * cos2Theta * cos2Theta)
Importance(cosTheta) ==
    ExpRecip(ExpMul(ExpMul(ExpMul(AExp, LensAreaExp),
                           ExpMul(cosTheta, cosTheta)),
                    ExpMul(cosTheta, cosTheta)))

\* We(ray, pRaster2), given the trace of the ray turned round: returned is
\* FALSE when CHECK_GE(t, 0) ended the process inside the trace
WeTraced(ray, tr) ==
    IF tr.status = "abort" THEN [returned |-> FALSE, We |-> FloatZero]
    ELSE IF ~tr.ok \/ tr.ray.d[3] >= 0
    THEN [returned |-> TRUE, We |-> FloatZero]
    ELSE IF OutOfBounds(WeFilmPoint(tr.ray), GetPhysicalExtent)
    THEN [returned |-> TRUE, We |-> FloatZero]
    ELSE [returned |-> TRUE, We |-> Importance(CosThetaExp(ray))]
We(ray) ==
    IF ray.d[3] <= 0 THEN [returned |-> TRUE, We |-> FloatZero]
    ELSE WeTraced(ray, WeNegTrace(ray))

\* lines 198-200: *pdfPos = 1 / lensArea and
\* *pdfDir = 1 / (A * cosTheta * cosTheta * cosTheta)
PdfPos == ExpRecip(LensAreaExp)
PdfDir(cosTheta) ==
    ExpRecip(ExpMul(ExpMul(ExpMul(AExp, cosTheta), cosTheta), cosTheta))

\* Pdf_We(ray, pdfPos, pdfDir), given the trace of the ray turned round
Pdf_WeTraced(ray, tr) ==
    IF tr.status = "abort"
    THEN [returned |-> FALSE, pdfPos |-> FloatZero, pdfDir |-> FloatZero]
    ELSE IF ~tr.ok \/ tr.ray.d[3] >= 0
    THEN [returned |-> TRUE, pdfPos |-> FloatZero, pdfDir |-> FloatZero]
    ELSE IF OutOfBounds(WeFilmPoint(tr.ray), GetPhysicalExtent)
    THEN [returned |-> TRUE, pdfPos |-> FloatZero, pdfDir |-> FloatZero]
    ELSE [returned |-> TRUE, pdfPos |-> PdfPos,
          pdfDir |-> PdfDir(CosThetaExp(ray))]
Pdf_We(ray) ==
    IF ray.d[3] <= 0
    THEN [returned |-> TRUE, pdfPos |-> FloatZero, pdfDir |-> FloatZero]
    ELSE Pdf_WeTraced(ray, WeNegTrace(ray))

\* What the two functions hand back for one ray
Positive(x) == x # FloatZero /\ x # NaN
SupportAgrees(we, pdf) ==
    /\ we.returned /\ pdf.returned
    /\ we.We = FloatZero <=> (pdf.pdfPos = FloatZero /\ pdf.pdfDir = FloatZero)
    /\ we.We # FloatZero =>
           Positive(we.We) /\ Positive(pdf.pdfPos) /\ Positive(pdf.pdfDir)

\* C21: for every ray, We returns importance 0 exactly when Pdf_We sets
\* both densities to 0, and otherwise the importance and both densities
\* are above 0.
C21_SupportAgrees ==
    pc = "ready" => \A ray \in WeRays : SupportAgrees(We(ray), Pdf_We(ray))

\* C21, the state that breaks it: the lens is a stop and nothing else, a ray
\* along the axis goes through it to a point of the film, its direction is
\* long enough for A * lensArea * cos2Theta * cos2Theta to overflow, and We
\* returns 0 where Pdf_We returns two densities above 0
C21_ImportanceOverflows ==
    /\ pc = "ready"
    /\ Len(elementInterfaces) = 1
    /\ elementInterfaces[1].curvatureRadius = 0
    /\ \E ray \in WeRays :
           /\ ray.e > 0
           /\ WeNegTrace(ray).ok
           /\ We(ray).returned /\ We(ray).We = FloatZero
           /\ Pdf_We(ray).returned
           /\ Positive(Pdf_We(ray).pdfPos) /\ Positive(Pdf_We(ray).pdfDir)

====
